---- MODULE Spec2Model ----
(***************************************************************************)
(* Scheduling kernel of pysimgrid: per-host timesheets with gap-aware      *)
(* insertion (algorithms/utils.py), the HEFT list scheduler                *)
(* (algorithms/heft.py) and the Lookahead scheduler                        *)
(* (algorithms/lookahead.py).                                              *)
(*                                                                         *)
(* Times, amounts and weights are integers.  The input sets are chosen so  *)
(* that every division the code performs (amount / speed,                  *)
(* weight / bandwidth) is exact; ranks that divide by a platform mean are  *)
(* compared after multiplying by the common denominator.                   *)
(* Positions are 0-based as in the Python code; sequences are 1-based, so  *)
(* the code's timesheet[i] is timesheet[i + 1] here and the code's tuple   *)
(* field e[k] is e[k + 1].                                                 *)
(***************************************************************************)
EXTENDS Integers, Sequences, FiniteSets, TLC

\* ------------------------------------------------------------------ bounds
\* tasks and hosts are numbered; the number stands for the name, so the
\* order of the numbers is the order of the names
NumTasks == 3
NumHosts == 2
MaxEst == 2
MaxEet == 1
MaxLen == 2
MaxTime == 12
MaxArgEst == 3
MaxArgEet == 3

Tasks == 1..NumTasks
Hosts == 1..NumHosts
Amounts == {0, 2}
Weights == {0, 2}
Speeds == {1, 2}
Bandwidths == {1, 2}
Latencies == {0, 1}

\* a task that has no host yet / no completion time yet (SchedulerState)
None == 0
NaN == 0 - 1

VARIABLES
  call,              \* the last call of the function examined: arguments and result
  timetable,         \* state.timetable: host -> timesheet
  task_states,       \* state.task_states: task -> [ect, host]
  ninserted,         \* number of tasks placed by the insertion driver
  nxgraph,           \* the task graph: amounts and weighted edges
  platform_model,    \* speed, bandwidth, latency
  ordered_tasks,     \* the list heft_order returned
  expected_makespan, \* what get_schedule returns next to the schedule
  pc,                \* the position of the running scheduler
  raw_schedule,      \* Lookahead: host -> timesheet of (start, end, task)
  temp_schedule,     \* Lookahead: the copy the last candidate was evaluated on
  tasks_info,        \* Lookahead: task -> [host, start_time, end_time]
  hosts_taskinfo,    \* Lookahead: the candidates evaluated for the current task
  config,            \* Scheduler.__init__: class name, environment, the two modes
  static_schedule,   \* StaticScheduler.run: what get_schedule returned
  boundary_tasks,    \* the tasks whose name is in BOUNDARY_TASKS
  sim_hosts,         \* simulator: task -> the host task.schedule gave it
  dependencies,      \* simulator: the pairs add_dependency was called with
  sim_state,         \* simulator: task or transfer -> its execution state
  raised,            \* the exception the running call raised, if any
  batch,             \* a batch scheduler: its hosts' and tasks' data, the simulator it sees
  ldcp,              \* the fields of an LDCP object
  peft,              \* the fields and locals of a PEFTScheduler
  dls,               \* the locals of DLS.get_schedule
  hcpt,              \* the locals of HCPT.get_schedule
  manager            \* the fields of a testbed Manager, its agents and its threads

laVars == <<raw_schedule, temp_schedule, tasks_info, hosts_taskinfo>>

drvVars == <<config, static_schedule, boundary_tasks, sim_hosts, dependencies,
            sim_state, raised>>

algVars == <<batch, ldcp, peft, dls, hcpt, manager>>

vars == <<call, timetable, task_states, ninserted, nxgraph, platform_model,
          ordered_tasks, expected_makespan, pc, laVars, drvVars, algVars>>

\* ------------------------------------------------------------ arithmetic
Max2(a, b) == IF a >= b THEN a ELSE b

SetMax(S) == CHOOSE x \in S : \A y \in S : y <= x

SetMin(S) == CHOOSE x \in S : \A y \in S : x <= y

RECURSIVE SetSum(_, _)
SetSum(f, S) ==
  IF S = {} THEN 0
  ELSE LET x == CHOOSE y \in S : TRUE IN f[x] + SetSum(f, S \ {x})

\* ------------------------------------------------------------- timesheet
\* the entry before position i (1-based) in chain([(None, 0, 0)], timesheet)
extended(timesheet, i) == IF i = 1 THEN <<None, 0, 0>> ELSE timesheet[i - 1]

\* slot = t2[1] - max(t1[2], est) for the pair ending at entry i
slot(timesheet, est, i) == timesheet[i][2] - Max2(extended(timesheet, i)[3], est)

\* the loop breaks at the first pair whose slot is wider than eet
timesheet_insertion(timesheet, est, eet) ==
  LET fits == {i \in 1..Len(timesheet) : slot(timesheet, est, i) > eet}
      idx == SetMin(fits)
      start_time == IF fits # {} THEN extended(timesheet, idx)[3]
                    ELSE IF timesheet # <<>> THEN timesheet[Len(timesheet)][3]
                    ELSE 0
      insert_index == IF fits # {} THEN idx - 1 ELSE Len(timesheet)
      start == Max2(start_time, est)
  IN <<insert_index, start, start + eet>>

\* Python's list.insert(pos, x)
list_insert(list, pos, x) ==
  LET p0 == IF pos < 0 THEN Max2(pos + Len(list), 0) ELSE pos
      p == IF p0 > Len(list) THEN Len(list) ELSE p0
  IN SubSeq(list, 1, p) \o <<x>> \o SubSeq(list, p + 1, Len(list))

update_schedule_state_append(task, host, pos, start, finish, states, schedule) ==
  [task_states |-> [states EXCEPT ![task] = [ect |-> finish, host |-> host]],
   schedule |-> [schedule EXCEPT ![host] = Append(@, <<task, start, finish>>)]]

update_schedule_state_assign(task, host, pos, start, finish, states, schedule) ==
  [task_states |-> [states EXCEPT ![task] = [ect |-> finish, host |-> host]],
   schedule |-> [schedule EXCEPT ![host] =
                   IF pos < Len(@) THEN [@ EXCEPT ![pos + 1] = <<task, start, finish>>]
                   ELSE Append(@, <<task, start, finish>>)]]

update_schedule_state_start(task, host, pos, start, finish, states, schedule) ==
  [task_states |-> [states EXCEPT ![task] = [ect |-> start, host |-> host]],
   schedule |-> [schedule EXCEPT ![host] = list_insert(@, pos, <<task, start, finish>>)]]

update_schedule_state(task, host, pos, start, finish, states, schedule) ==
  [task_states |-> [states EXCEPT ![task] = [ect |-> finish, host |-> host]],
   schedule |-> [schedule EXCEPT ![host] = list_insert(@, pos, <<task, start, finish>>)]]

\* SchedulerState(simulation): empty timesheets, nothing placed
EmptyTimetable == [h \in Hosts |-> <<>>]

EmptyTaskStates == [t \in Tasks |-> [ect |-> NaN, host |-> None]]

NoCall == [timesheet |-> <<>>, est |-> 0, eet |-> 0, result |-> <<>>]

NoGraph == [amount |-> [t \in Tasks |-> 0], weight |-> <<>>]

NoPlatform == [speed |-> [h \in Hosts |-> 1],
               bandwidth |-> [p \in Hosts \X Hosts |-> 1],
               latency |-> [p \in Hosts \X Hosts |-> 0]]

NoTasksInfo == [t \in Tasks |-> [host |-> None, start_time |-> NaN, end_time |-> NaN]]

\* the Lookahead scheduler has not been started
LaIdle ==
  /\ raw_schedule = EmptyTimetable
  /\ temp_schedule = EmptyTimetable
  /\ tasks_info = NoTasksInfo
  /\ hosts_taskinfo = <<>>

\* an exception: its class or message, and the task names it lists
Error(type, names) == [type |-> type, names |-> names]

NoError == Error("", {})

NoConfig == [algo |-> "", environ |-> <<>>, task_exec_mode |-> "", data_transfer_mode |-> ""]

NoSchedule == [type |-> "", tuple_ok |-> TRUE, items_ok |-> TRUE,
               lists |-> [h \in Hosts |-> <<>>],
               direct |-> [t \in Tasks |-> None], expected_makespan |-> NaN]

\* no scheduler object has been constructed, the simulator is untouched
DrvIdle ==
  /\ config = NoConfig
  /\ static_schedule = NoSchedule
  /\ boundary_tasks = {}
  /\ sim_hosts = [t \in Tasks |-> None]
  /\ dependencies = {}
  /\ sim_state = <<>>
  /\ raised = NoError

\* none of the batch, LDCP, PEFT, DLS and HCPT schedulers and no testbed
\* manager has been constructed
AlgIdle ==
  /\ batch = <<>>
  /\ ldcp = <<>>
  /\ peft = <<>>
  /\ dls = <<>>
  /\ hcpt = <<>>
  /\ manager = <<>>

\* --------------------------------------------------- insertion as a function
\* all timesheets of at most MaxLen entries obeying the timesheet invariant
RECURSIVE SortedSheets(_, _)
SortedSheets(n, from) ==
  IF n = 0 THEN {<<>>}
  ELSE {<<>>} \cup
       UNION {{<<<<n, s, f>>>> \o rest : rest \in SortedSheets(n - 1, f)} :
                 <<s, f>> \in {p \in (from..MaxTime) \X (from..MaxTime) : p[1] <= p[2]}}

InitInsertion ==
  /\ \E ts \in SortedSheets(MaxLen, 0), e \in 0..MaxArgEst, d \in 0..MaxArgEet :
       call = [timesheet |-> ts, est |-> e, eet |-> d, result |-> <<>>]
  /\ timetable = EmptyTimetable
  /\ task_states = EmptyTaskStates
  /\ ninserted = 0
  /\ nxgraph = NoGraph
  /\ platform_model = NoPlatform
  /\ ordered_tasks = <<>>
  /\ expected_makespan = NaN
  /\ pc = "insertion"
  /\ LaIdle
  /\ DrvIdle
  /\ AlgIdle

ApplyInsertion ==
  /\ pc = "insertion"
  /\ call.result = <<>>
  /\ call' = [call EXCEPT !.result = timesheet_insertion(call.timesheet, call.est, call.eet)]
  /\ UNCHANGED <<timetable, task_states, ninserted, nxgraph, platform_model,
                 ordered_tasks, expected_makespan, pc>>
  /\ UNCHANGED laVars
  /\ UNCHANGED drvVars
  /\ UNCHANGED algVars

SpecInsertion == InitInsertion /\ [][ApplyInsertion]_vars

\* ------------------------------------ repeated insertion and state update
InitState ==
  /\ call = NoCall
  /\ timetable = EmptyTimetable
  /\ task_states = EmptyTaskStates
  /\ ninserted = 0
  /\ nxgraph = NoGraph
  /\ platform_model = NoPlatform
  /\ ordered_tasks = <<>>
  /\ expected_makespan = NaN
  /\ pc = "state"
  /\ LaIdle
  /\ DrvIdle
  /\ AlgIdle

\* one iteration of a static algorithm's loop: the next task is given a
\* host, an est and an eet, inserted, and the state is updated
PlaceTask(host, e, d) ==
  /\ pc = "state"
  /\ ninserted < NumTasks
  /\ LET task == ninserted + 1
         ins == timesheet_insertion(timetable[host], e, d)
         upd == update_schedule_state(task, host, ins[1], ins[2], ins[3],
                                      task_states, timetable)
     IN /\ call' = [timesheet |-> timetable[host], est |-> e, eet |-> d,
                    result |-> ins]
        /\ timetable' = upd.schedule
        /\ task_states' = upd.task_states
  /\ ninserted' = ninserted + 1
  /\ UNCHANGED <<nxgraph, platform_model, ordered_tasks, expected_makespan, pc>>
  /\ UNCHANGED laVars
  /\ UNCHANGED drvVars
  /\ UNCHANGED algVars

NextState == \E host \in Hosts, e \in 0..MaxEst, d \in 0..MaxEet :
               PlaceTask(host, e, d)

SpecState == InitState /\ [][NextState]_vars

\* ------------------------------------------- update at a caller's position
\* update_schedule_state called directly: the caller passes the position and
\* the times; the function has no check and no raise statement
InitUpdate ==
  /\ call = NoCall
  /\ timetable = EmptyTimetable
  /\ task_states = EmptyTaskStates
  /\ ninserted = 0
  /\ nxgraph = NoGraph
  /\ platform_model = NoPlatform
  /\ ordered_tasks = <<>>
  /\ expected_makespan = NaN
  /\ pc = "update"
  /\ LaIdle
  /\ DrvIdle
  /\ AlgIdle

Update(task, host, pos, start, finish) ==
  /\ pc = "update"
  /\ ninserted < NumTasks
  /\ task = ninserted + 1
  /\ LET upd == update_schedule_state(task, host, pos, start, finish,
                                      task_states, timetable)
     IN /\ timetable' = upd.schedule
        /\ task_states' = upd.task_states
  /\ call' = [task |-> task, host |-> host, pos |-> pos, start |-> start,
              finish |-> finish]
  /\ raised' = NoError
  /\ ninserted' = ninserted + 1
  /\ UNCHANGED <<nxgraph, platform_model, ordered_tasks, expected_makespan, pc>>
  /\ UNCHANGED laVars
  /\ UNCHANGED <<config, static_schedule, boundary_tasks, sim_hosts, dependencies,
                 sim_state>>
  /\ UNCHANGED algVars

NextUpdate == \E task \in Tasks, host \in Hosts, pos \in 0..NumTasks,
                 start \in 0..MaxEst, d \in 0..MaxEet :
                Update(task, host, pos, start, start + d)

SpecUpdate == InitUpdate /\ [][NextUpdate]_vars

\* ------------------------------------------------------------ task graph
Edges(g) == DOMAIN g.weight

pred(g, task) == {u \in Tasks : <<u, task>> \in Edges(g)}

children(g, task) == {c \in Tasks : <<task, c>> \in Edges(g)}

RECURSIVE AcyclicOn(_, _)
AcyclicOn(E, S) ==
  IF S = {} THEN TRUE
  ELSE LET sources == {t \in S : ~ \E u \in S : <<u, t>> \in E}
       IN sources # {} /\ AcyclicOn(E, S \ sources)

\* ------------------------------------------------------- platform model
Platforms ==
  {[speed |-> sp,
    bandwidth |-> [p \in Hosts \X Hosts |-> bw],
    latency |-> [p \in Hosts \X Hosts |-> IF p[1] = p[2] THEN 0 ELSE lat]] :
      sp \in [Hosts -> Speeds], bw \in Bandwidths, lat \in Latencies}

OffDiagonal == {p \in Hosts \X Hosts : p[1] # p[2]}

\* the means are fractions; these are their numerators and denominators:
\* mean_speed = SumSpeed / NumHosts, mean_bandwidth = SumBandwidth / NumPairs,
\* mean_latency = SumLatency / NumPairs
SumSpeed(pm) == SetSum(pm.speed, Hosts)

SumBandwidth(pm) == SetSum(pm.bandwidth, OffDiagonal)

SumLatency(pm) == SetSum(pm.latency, OffDiagonal)

NumPairs == Cardinality(OffDiagonal)

eet(g, pm, task, host) == g.amount[task] \div pm.speed[host]

parent_data_ready_time_nocomm(parent, target_host, weight, states, pm) ==
  states[parent].ect

parent_data_ready_time(parent, target_host, weight, states, pm) ==
  IF states[parent].host = target_host
  THEN states[parent].ect
  ELSE states[parent].ect
         + weight \div pm.bandwidth[<<states[parent].host, target_host>>]
         + pm.latency[<<states[parent].host, target_host>>]

est(g, pm, host, task, states) ==
  SetMax({0} \cup {parent_data_ready_time(p, host, g.weight[<<p, task>>], states, pm) :
                     p \in pred(g, task)})

\* ------------------------------------------------------------------ HEFT
\* mean_speed, mean_bandwidth and mean_latency as numerators over the
\* denominators NumHosts, NumPairs and NumPairs
Means(pm) == [speed |-> SumSpeed(pm), bandwidth |-> SumBandwidth(pm),
              latency |-> SumLatency(pm)]

\* ranku multiplied by SumSpeed * SumBandwidth * NumPairs
RECURSIVE task_ranku(_, _, _)
task_ranku(g, means, task) ==
  LET ecomt_and_rank ==
        {task_ranku(g, means, c)
           + g.weight[<<task, c>>] * NumPairs * NumPairs * means.speed
           + means.latency * means.speed * means.bandwidth : c \in children(g, task)}
  IN g.amount[task] * NumHosts * means.bandwidth * NumPairs
       + SetMax({0} \cup ecomt_and_rank)

\* the task_ranku dict
RankTable(g, pm) ==
  LET means == Means(pm)
  IN [t \in Tasks |-> task_ranku(g, means, t)] @@ <<>>

\* the sort key (task_ranku[node], node.name); a task's name is its number
RankKeyAbove(ranks, a, b) ==
  \/ ranks[a] > ranks[b]
  \/ ranks[a] = ranks[b] /\ a > b

RECURSIVE SortedReverse(_, _)
SortedReverse(ranks, S) ==
  IF S = {} THEN <<>>
  ELSE LET top == CHOOSE t \in S : \A u \in S \ {t} : RankKeyAbove(ranks, t, u)
       IN <<top>> \o SortedReverse(ranks, S \ {top})

heft_order(g, pm) == SortedReverse(RankTable(g, pm), Tasks)

\* what the inner loop computes for one host
Candidate(g, pm, task, host, states, schedule) ==
  LET e == est(g, pm, host, task, states)
      ins == timesheet_insertion(schedule[host], e, eet(g, pm, task, host))
  IN [host |-> host, pos |-> ins[1], start |-> ins[2], finish |-> ins[3]]

HostKey_name(pm, c) == <<c.finish, c.host, c.host>>

\* (finish, host.speed, host.name); a host's name is its number
HostKey(pm, c) == <<c.finish, pm.speed[c.host], c.host>>

TupleLess(a, b) ==
  \/ a[1] < b[1]
  \/ a[1] = b[1] /\ a[2] < b[2]
  \/ a[1] = b[1] /\ a[2] = b[2] /\ a[3] < b[3]

\* MinSelector: the value whose key is the smallest
MinSelector(pm, candidates) ==
  CHOOSE c \in candidates :
    \A d \in candidates \ {c} : TupleLess(HostKey(pm, c), HostKey(pm, d))

InitHEFT ==
  /\ \E E \in SUBSET {p \in Tasks \X Tasks : p[1] # p[2]} :
       /\ AcyclicOn(E, Tasks)
       /\ \E a \in [Tasks -> Amounts], w \in [E -> Weights] :
            nxgraph = [amount |-> a, weight |-> w]
  /\ platform_model \in Platforms
  /\ call = NoCall
  /\ timetable = EmptyTimetable
  /\ task_states = EmptyTaskStates
  /\ ninserted = 0
  /\ ordered_tasks = <<>>
  /\ expected_makespan = NaN
  /\ pc = "get_schedule"
  /\ LaIdle
  /\ DrvIdle
  /\ AlgIdle

HeftOrder ==
  /\ pc = "get_schedule"
  /\ ordered_tasks' = heft_order(nxgraph, platform_model)
  /\ pc' = "heft_schedule"
  /\ UNCHANGED <<call, timetable, task_states, ninserted, nxgraph, platform_model,
                 expected_makespan>>
  /\ UNCHANGED laVars
  /\ UNCHANGED drvVars
  /\ UNCHANGED algVars

\* one iteration of "for task in ordered_tasks"
HeftPlace ==
  /\ pc = "heft_schedule"
  /\ ninserted < Len(ordered_tasks)
  /\ LET task == ordered_tasks[ninserted + 1]
     IN /\ \A p \in pred(nxgraph, task) : task_states[p].host # None
        /\ LET best == MinSelector(platform_model,
                         {Candidate(nxgraph, platform_model, task, h, task_states, timetable) :
                            h \in Hosts})
               upd == update_schedule_state(task, best.host, best.pos, best.start,
                                            best.finish, task_states, timetable)
           IN /\ call' = [timesheet |-> timetable[best.host],
                          est |-> est(nxgraph, platform_model, best.host, task, task_states),
                          eet |-> eet(nxgraph, platform_model, task, best.host),
                          result |-> <<best.pos, best.start, best.finish>>]
              /\ timetable' = upd.schedule
              /\ task_states' = upd.task_states
  /\ ninserted' = ninserted + 1
  /\ UNCHANGED <<nxgraph, platform_model, ordered_tasks, expected_makespan, pc>>
  /\ UNCHANGED laVars
  /\ UNCHANGED drvVars
  /\ UNCHANGED algVars

\* est is asked for a task one of whose parents has no host yet
HeftInvalidState ==
  /\ pc = "heft_schedule"
  /\ ninserted < Len(ordered_tasks)
  /\ \E p \in pred(nxgraph, ordered_tasks[ninserted + 1]) : task_states[p].host = None
  /\ pc' = "InvalidState"
  /\ UNCHANGED <<call, timetable, task_states, ninserted, nxgraph, platform_model,
                 ordered_tasks, expected_makespan>>
  /\ UNCHANGED laVars
  /\ UNCHANGED drvVars
  /\ UNCHANGED algVars

HeftReturn ==
  /\ pc = "heft_schedule"
  /\ ninserted = Len(ordered_tasks)
  /\ expected_makespan' = SetMax({task_states[t].ect : t \in Tasks})
  /\ pc' = "done"
  /\ UNCHANGED <<call, timetable, task_states, ninserted, nxgraph, platform_model,
                 ordered_tasks>>
  /\ UNCHANGED laVars
  /\ UNCHANGED drvVars
  /\ UNCHANGED algVars

NextHEFT == HeftOrder \/ HeftPlace \/ HeftInvalidState \/ HeftReturn

SpecHEFT == InitHEFT /\ [][NextHEFT]_vars

\* ------------------------------------------------------------- Lookahead
\* the body of heft_schedule's loop for one task
heft_place(g, pm, task, state) ==
  LET best == MinSelector(pm, {Candidate(g, pm, task, h, state.task_states, state.schedule) :
                                 h \in Hosts})
  IN update_schedule_state(task, best.host, best.pos, best.start, best.finish,
                           state.task_states, state.schedule)

\* heft_schedule from position i of the order; ok is FALSE when est was
\* asked for a task with a parent that has no host
RECURSIVE heft_schedule(_, _, _, _, _)
heft_schedule(g, pm, state, ordered, i) ==
  IF i > Len(ordered) THEN [ok |-> TRUE, state |-> state]
  ELSE IF \E p \in pred(g, ordered[i]) : state.task_states[p].host = None
       THEN [ok |-> FALSE, state |-> state]
       ELSE heft_schedule(g, pm, heft_place(g, pm, ordered[i], state), ordered, i + 1)

\* Lookahead timesheet entries are (start, end, (task, complexity)), here
\* <<start, end, task>>; list.append(x) followed by list.sort()
append_and_sort(timesheet, x) ==
  LET k == Cardinality({i \in 1..Len(timesheet) : ~ TupleLess(x, timesheet[i])})
  IN SubSeq(timesheet, 1, k) \o <<x>> \o SubSeq(timesheet, k + 1, Len(timesheet))

\* the end before entry i once (0., 0.) is put in front
PrevEnd(timesheet, i) == IF i = 1 THEN 0 ELSE timesheet[i - 1][2]

\* the gaps (p[0][1], p[1][0]) with p[0][1] != p[1][0], named by the entry
\* that follows them
timesheet_gaps(timesheet) ==
  {i \in 1..Len(timesheet) : PrevEnd(timesheet, i) # timesheet[i][1]}

assign_task(e, amount, speed, timesheet) ==
  LET duration == amount \div speed
      fits == {i \in timesheet_gaps(timesheet) :
                 ~ (timesheet[i][1] < e
                      \/ duration > timesheet[i][1] - Max2(PrevEnd(timesheet, i), e))}
      start == IF fits # {} THEN Max2(PrevEnd(timesheet, SetMin(fits)), e)
               ELSE Max2(IF Len(timesheet) > 0 THEN timesheet[Len(timesheet)][2] ELSE 0, e)
  IN <<start, start + duration>>

RECURSIVE Closure(_, _)
Closure(g, S) ==
  LET next == S \cup UNION {children(g, t) : t \in S}
  IN IF next = S THEN S ELSE Closure(g, next)

\* the tasks of the subtaskflow: everything reachable from the task
construct_subtaskflow(g, task) == Closure(g, children(g, task))

\* the ends of a task's entries in a schedule
EndsIn(schedule, task) ==
  {schedule[h][i][2] : <<h, i>> \in
     {q \in Hosts \X (1..(2 * NumTasks)) :
        q[2] <= Len(schedule[q[1]]) /\ schedule[q[1]][q[2]][3] = task}}

\* a HEFT schedule of the tasks of sub, in HEFT order, on top of schedule
RECURSIVE construct_heft_schedule(_, _, _, _, _, _)
construct_heft_schedule(g, pm, sub, schedule, ordered, i) ==
  IF i > Len(ordered) THEN schedule
  ELSE IF ordered[i] \notin sub
       THEN construct_heft_schedule(g, pm, sub, schedule, ordered, i + 1)
       ELSE LET task == ordered[i]
                e == SetMax({0} \cup UNION {EndsIn(schedule, p) : p \in pred(g, task)})
                candidates ==
                  {LET a == assign_task(e, g.amount[task], pm.speed[h], schedule[h])
                   IN [host |-> h, pos |-> 0, start |-> a[1], finish |-> a[2]] : h \in Hosts}
                best == MinSelector(pm, candidates)
            IN construct_heft_schedule(g, pm, sub,
                 [schedule EXCEPT ![best.host] =
                    append_and_sort(@, <<best.start, best.finish, task>>)],
                 ordered, i + 1)

deepcopy_shared(x) == [value |-> x, shared |-> TRUE]

\* copy.deepcopy: the value, in an object that shares nothing with x
deepcopy(x) == [value |-> x, shared |-> FALSE]

InitLA ==
  /\ \E E \in SUBSET {p \in Tasks \X Tasks : p[1] # p[2]} :
       /\ AcyclicOn(E, Tasks)
       /\ \E a \in [Tasks -> Amounts], w \in [E -> Weights] :
            nxgraph = [amount |-> a, weight |-> w]
  /\ platform_model \in Platforms
  /\ call = NoCall
  /\ timetable = EmptyTimetable
  /\ task_states = EmptyTaskStates
  /\ ninserted = 0
  /\ ordered_tasks = <<>>
  /\ expected_makespan = NaN
  /\ pc = "lookahead"
  /\ LaIdle
  /\ DrvIdle
  /\ AlgIdle

LaOrder ==
  /\ pc = "lookahead"
  /\ ordered_tasks' = heft_order(nxgraph, platform_model)
  /\ pc' = "evaluate"
  /\ UNCHANGED <<call, timetable, task_states, ninserted, nxgraph, platform_model,
                 expected_makespan, laVars, drvVars>>
  /\ UNCHANGED algVars

\* one iteration of "for host in simulation.hosts" for the current task
LaEvaluateHost ==
  /\ pc = "evaluate"
  /\ ninserted < Len(ordered_tasks)
  /\ Len(hosts_taskinfo) < NumHosts
  /\ LET task == ordered_tasks[ninserted + 1]
         host == Len(hosts_taskinfo) + 1
         e == SetMax({0} \cup {tasks_info[p].end_time :
                 p \in {q \in pred(nxgraph, task) : tasks_info[q].host # None}})
         copy == deepcopy(raw_schedule)
         a == assign_task(e, nxgraph.amount[task], platform_model.speed[host],
                          raw_schedule[host])
         with_task == [copy.value EXCEPT ![host] = append_and_sort(@, <<a[1], a[2], task>>)]
         subschedule == construct_heft_schedule(nxgraph, platform_model,
                          construct_subtaskflow(nxgraph, task), with_task, ordered_tasks, 1)
         end_time == SetMax({subschedule[h][Len(subschedule[h])][2] :
                       h \in {k \in Hosts : subschedule[k] # <<>>}})
     IN /\ hosts_taskinfo' = Append(hosts_taskinfo,
             [start_task_time |-> a[1], end_task_time |-> a[2], end_time_total |-> end_time])
        /\ temp_schedule' = subschedule
        /\ raw_schedule' = IF copy.shared THEN subschedule ELSE raw_schedule
  /\ UNCHANGED <<call, timetable, task_states, ninserted, nxgraph, platform_model,
                 ordered_tasks, expected_makespan, pc, tasks_info, drvVars>>
  /\ UNCHANGED algVars

\* the first host, in the order of evaluation, among those with the least
\* end_time_total that has the least end_task_time
host_to_assign(info) ==
  LET min_total_time == SetMin({info[h].end_time_total : h \in 1..Len(info)})
      tied == {h \in 1..Len(info) : info[h].end_time_total = min_total_time}
  IN CHOOSE h \in tied : \A k \in tied \ {h} :
       \/ info[h].end_task_time < info[k].end_task_time
       \/ info[h].end_task_time = info[k].end_task_time /\ h < k

LaAssign ==
  /\ pc = "evaluate"
  /\ ninserted < Len(ordered_tasks)
  /\ Len(hosts_taskinfo) = NumHosts
  /\ LET task == ordered_tasks[ninserted + 1]
         host == host_to_assign(hosts_taskinfo)
         info == hosts_taskinfo[host]
     IN /\ raw_schedule' = [raw_schedule EXCEPT ![host] =
             append_and_sort(@, <<info.start_task_time, info.end_task_time, task>>)]
        /\ tasks_info' = [tasks_info EXCEPT ![task] =
             [host |-> host, start_time |-> info.start_task_time,
              end_time |-> info.end_task_time]]
  /\ hosts_taskinfo' = <<>>
  /\ ninserted' = ninserted + 1
  /\ UNCHANGED <<call, timetable, task_states, nxgraph, platform_model,
                 ordered_tasks, expected_makespan, pc, temp_schedule, drvVars>>
  /\ UNCHANGED algVars

LaReturn ==
  /\ pc = "evaluate"
  /\ ninserted = Len(ordered_tasks)
  /\ pc' = "la_done"
  /\ UNCHANGED <<call, timetable, task_states, ninserted, nxgraph, platform_model,
                 ordered_tasks, expected_makespan, laVars, drvVars>>
  /\ UNCHANGED algVars

NextLA == LaOrder \/ LaEvaluateHost \/ LaAssign \/ LaReturn

SpecLA == InitLA /\ [][NextLA]_vars

\* ------------------------------------------------ scheduler construction
TaskExecutionMode == {"SEQUENTIAL", "PARALLEL"}

DataTransferMode == {"EAGER", "LAZY", "PREFETCH", "QUEUE", "QUEUE_ECT", "PARENTS",
                     "LAZY_PARENTS"}

\* the concrete classes derived from StaticScheduler and DynamicScheduler
StaticSchedulers == {"DLS", "HCPT", "HEFTScheduler", "LDCP", "LookaheadScheduler",
                     "PEFTScheduler", "RandomStatic", "RoundRobinStatic", "SimHEFT"}

DynamicSchedulers == {"BatchMin", "BatchMax", "BatchSufferage", "DynamicBatchMin",
                      "DynamicBatchMax", "DynamicBatchSufferage", "MCT", "DynamicMCT",
                      "OLB"}

\* os.environ: each variable is absent ("") or holds a string, which may
\* be the name of no enum member
Environ == [PYSIMGRID_TASK_EXECUTION : TaskExecutionMode \cup {"", "BOGUS"},
            PYSIMGRID_DATA_TRANSFER : DataTransferMode \cup {"", "BOGUS"}]

\* Scheduler.__init__: the modes are read from the environment (an unknown
\* name fails the enum lookup), then QUEUE_ECT is refused unless the name of
\* the class is 'HEFT' or 'Lookahead'
Scheduler_init(algo, environ) ==
  LET exec_name == IF environ.PYSIMGRID_TASK_EXECUTION # ""
                   THEN environ.PYSIMGRID_TASK_EXECUTION ELSE "SEQUENTIAL"
      transfer_name == IF environ.PYSIMGRID_DATA_TRANSFER # ""
                       THEN environ.PYSIMGRID_DATA_TRANSFER ELSE "EAGER"
  IN IF exec_name \notin TaskExecutionMode
     THEN [raised |-> Error("KeyError", {}), task_exec_mode |-> "",
           data_transfer_mode |-> ""]
     ELSE IF transfer_name \notin DataTransferMode
     THEN [raised |-> Error("KeyError", {}), task_exec_mode |-> exec_name,
           data_transfer_mode |-> ""]
     ELSE [raised |-> IF transfer_name = "QUEUE_ECT" /\ algo \notin {"HEFT", "Lookahead"}
                      THEN Error("does not support mode", {}) ELSE NoError,
           task_exec_mode |-> exec_name,
           data_transfer_mode |-> transfer_name]

InitConstruct ==
  /\ \E algo \in StaticSchedulers \cup DynamicSchedulers, environ \in Environ :
       config = [algo |-> algo, environ |-> environ, task_exec_mode |-> "",
                 data_transfer_mode |-> ""]
  /\ static_schedule = NoSchedule
  /\ boundary_tasks = {}
  /\ sim_hosts = [t \in Tasks |-> None]
  /\ dependencies = {}
  /\ sim_state = <<>>
  /\ raised = NoError
  /\ call = NoCall
  /\ timetable = EmptyTimetable
  /\ task_states = EmptyTaskStates
  /\ ninserted = 0
  /\ nxgraph = NoGraph
  /\ platform_model = NoPlatform
  /\ ordered_tasks = <<>>
  /\ expected_makespan = NaN
  /\ pc = "construct"
  /\ LaIdle
  /\ AlgIdle

Construct ==
  /\ pc = "construct"
  /\ LET made == Scheduler_init(config.algo, config.environ)
     IN /\ config' = [config EXCEPT !.task_exec_mode = made.task_exec_mode,
                                    !.data_transfer_mode = made.data_transfer_mode]
        /\ raised' = made.raised
        /\ pc' = IF made.raised = NoError THEN "constructed" ELSE "failed"
  /\ UNCHANGED <<call, timetable, task_states, ninserted, nxgraph, platform_model,
                 ordered_tasks, expected_makespan, laVars>>
  /\ UNCHANGED <<static_schedule, boundary_tasks, sim_hosts, dependencies, sim_state>>
  /\ UNCHANGED algVars

SpecConstruct == InitConstruct /\ [][Construct]_vars

\* ------------------------------------------------------ dispatch driver
\* The simulator holds computation tasks and, for every edge of the
\* workflow, one communication task between its producer and its consumer.
\* A computation task t is the pair <<t, t>>, the transfer of the edge
\* u -> v is the pair <<u, v>>.
TaskNode(t) == <<t, t>>

Nodes(g) == {TaskNode(t) : t \in Tasks} \cup Edges(g)

\* task.parents[TASK_KIND_COMM_E2E], as a set
comms(g, task) == {<<u, task>> : u \in pred(g, task)}

RECURSIVE SeqOf(_)
SeqOf(S) == IF S = {} THEN <<>> ELSE LET m == SetMin(S) IN <<m>> \o SeqOf(S \ {m})

\* task.parents[TASK_KIND_COMM_E2E], as the list the simulator returns
comm_list(g, task) ==
  LET producers == SeqOf(pred(g, task))
  IN [i \in 1..Len(producers) |-> <<producers[i], task>>]

constrained_but_parallel(boundary, exec_mode, task) == task \notin boundary

\* neither `continue` of the loop body applies to the task
constrained(boundary, exec_mode, task) ==
  task \notin boundary /\ exec_mode # "PARALLEL"

sequential_dependencies_always(g, tasks, pos) ==
  IF pos > 0 THEN {<<TaskNode(tasks[pos]), TaskNode(tasks[pos + 1])>>} ELSE {}

sequential_dependencies_never(g, tasks, pos) == {}

\* SEQUENTIAL: dependency on the previous task of the host unless it is a parent
sequential_dependencies(g, tasks, pos) ==
  LET task == tasks[pos + 1]
  IN IF pos > 0 /\ tasks[pos] \notin pred(g, task)
     THEN {<<TaskNode(tasks[pos]), TaskNode(task)>>}
     ELSE {}

lazy_dependencies_producer_only(g, tasks, pos) ==
  LET task == tasks[pos + 1]
  IN IF pos > 0
     THEN {<<TaskNode(tasks[pos]), comm>> :
             comm \in {c \in comms(g, task) : c[1] = tasks[pos]}}
     ELSE {}

lazy_dependencies(g, tasks, pos) ==
  LET task == tasks[pos + 1]
  IN IF pos > 0
     THEN {<<TaskNode(tasks[pos]), comm>> :
             comm \in {c \in comms(g, task) : c[1] # tasks[pos]}}
     ELSE {}

prefetch_dependencies(g, tasks, pos) ==
  LET task == tasks[pos + 1]
  IN (IF pos > 0
      THEN comms(g, tasks[pos]) \X comms(g, task)
      ELSE {})
     \cup
     (IF pos > 1
      THEN {<<TaskNode(tasks[pos - 1]), comm>> :
              comm \in {c \in comms(g, task) : c[1] # tasks[pos - 1]}}
      ELSE {})

transfer_dependencies_no_lazy_parents(g, transfer_mode, tasks, pos) ==
  CASE transfer_mode = "LAZY" -> lazy_dependencies(g, tasks, pos)
    [] transfer_mode = "PREFETCH" -> prefetch_dependencies(g, tasks, pos)
    [] OTHER -> {}

\* the elif chain on the data transfer mode, without the queue modes
transfer_dependencies(g, transfer_mode, tasks, pos) ==
  CASE transfer_mode \in {"LAZY", "LAZY_PARENTS"} -> lazy_dependencies(g, tasks, pos)
    [] transfer_mode = "PREFETCH" -> prefetch_dependencies(g, tasks, pos)
    [] OTHER -> {}

\* data_transfers of one host: (comm, key) for every input transfer of every
\* constrained task, in the order of the positions; the key is (0, pos) for
\* QUEUE and (ect of the producer, pos) for QUEUE_ECT
RECURSIVE data_transfers(_, _, _, _, _, _, _)
data_transfers(g, boundary, exec_mode, transfer_mode, ects, tasks, pos) ==
  IF pos >= Len(tasks) THEN <<>>
  ELSE LET task == tasks[pos + 1]
           inbound == comm_list(g, task)
           mine == IF constrained(boundary, exec_mode, task)
                   THEN [i \in 1..Len(inbound) |->
                           <<inbound[i],
                             <<IF transfer_mode = "QUEUE_ECT" THEN ects[inbound[i][1]].ect
                               ELSE 0, pos>>>>]
                   ELSE <<>>
       IN mine \o data_transfers(g, boundary, exec_mode, transfer_mode, ects, tasks, pos + 1)

KeyLess(a, b) == a[1] < b[1] \/ (a[1] = b[1] /\ a[2] < b[2])

\* list.sort(key=...): stable
RECURSIVE sort_by_key(_)
sort_by_key(list) ==
  IF list = <<>> THEN <<>>
  ELSE LET i == CHOOSE k \in 1..Len(list) :
                  /\ \A j \in 1..Len(list) : ~KeyLess(list[j][2], list[k][2])
                  /\ \A j \in 1..(k - 1) : KeyLess(list[k][2], list[j][2])
       IN <<list[i]>> \o sort_by_key(SubSeq(list, 1, i - 1) \o SubSeq(list, i + 1, Len(list)))

\* each transfer of the queue depends on the one after it
queue_dependencies_reversed(queue) ==
  {<<queue[i + 1][1], queue[i][1]>> : i \in 1..(Len(queue) - 1)}

queue_dependencies_first_only(queue) ==
  {<<queue[i][1], queue[i + 1][1]>> : i \in {k \in 1..(Len(queue) - 1) : k = 1}}

\* each transfer of the queue depends on the one before it
queue_dependencies(queue) ==
  {<<queue[i][1], queue[i + 1][1]>> : i \in 1..(Len(queue) - 1)}

\* the second loop: every other parent of the consumer before the transfer
parents_dependencies(g, task) ==
  {<<TaskNode(comm2[1]), comm>> :
     <<comm, comm2>> \in {q \in comms(g, task) \X comms(g, task) :
                            q[2] # q[1] /\ q[1][1] # q[2][1]}}

\* the tasks on the lists of a schedule
listed(lists) == UNION {{lists[h][i] : i \in 1..Len(lists[h])} : h \in Hosts}

host_of(lists, task) ==
  CHOOSE h \in Hosts : \E i \in 1..Len(lists[h]) : lists[h][i] = task

\* everything add_dependency is called with, lines 213-295
injected_dependencies(g, boundary, exec_mode, transfer_mode, ects, lists) ==
  LET positions(h) == {q \in 0..(Len(lists[h]) - 1) :
                         constrained(boundary, exec_mode, lists[h][q + 1])}
      first_loop(h) ==
        UNION {sequential_dependencies(g, lists[h], q)
                 \cup transfer_dependencies(g, transfer_mode, lists[h], q) :
               q \in positions(h)}
        \cup (IF transfer_mode \in {"QUEUE", "QUEUE_ECT"}
              THEN queue_dependencies(sort_by_key(
                     data_transfers(g, boundary, exec_mode, transfer_mode, ects,
                                    lists[h], 0)))
              ELSE {})
      second_loop ==
        IF transfer_mode \in {"PARENTS", "LAZY_PARENTS"}
        THEN UNION {parents_dependencies(g, task) :
                      task \in {t \in listed(lists) : constrained(boundary, exec_mode, t)}}
        ELSE {}
  IN UNION {first_loop(h) : h \in Hosts} \cup second_loop

\* how often lines 213-295 call add_dependency with the pair d: once for
\* every position of the first loop whose SEQUENTIAL step or whose data
\* transfer step adds d, once for every link of a host's queue that is d,
\* and once for every position of the second loop whose task adds d
add_dependency_calls(g, boundary, exec_mode, transfer_mode, ects, lists, d) ==
  LET positions(h) == {q \in 0..(Len(lists[h]) - 1) :
                         constrained(boundary, exec_mode, lists[h][q + 1])}
      queue(h) == sort_by_key(data_transfers(g, boundary, exec_mode, transfer_mode,
                                             ects, lists[h], 0))
      first_loop ==
        [h \in Hosts |->
           Cardinality({q \in positions(h) :
                          d \in sequential_dependencies(g, lists[h], q)})
           + Cardinality({q \in positions(h) :
                            d \in transfer_dependencies(g, transfer_mode, lists[h], q)})
           + (IF transfer_mode \in {"QUEUE", "QUEUE_ECT"}
              THEN Cardinality({i \in 1..(Len(queue(h)) - 1) :
                                  d = <<queue(h)[i][1], queue(h)[i + 1][1]>>})
              ELSE 0)]
      second_loop ==
        [h \in Hosts |->
           IF transfer_mode \in {"PARENTS", "LAZY_PARENTS"}
           THEN Cardinality({q \in positions(h) :
                               d \in parents_dependencies(g, lists[h][q + 1])})
           ELSE 0]
  IN SetSum(first_loop, Hosts) + SetSum(second_loop, Hosts)

\* the checks of lines 195-210 on what get_schedule returned; hosts_now is
\* the simulator's assignment when get_schedule returns
validate(result, hosts_now) ==
  LET unscheduled == {t \in Tasks : hosts_now[t] = None}
  IN IF result.type \notin {"dict", "tuple"}
     THEN Error("'get_schedule' must return a dictionary or a tuple", {})
     ELSE IF result.type = "tuple" /\ ~result.tuple_ok
     THEN Error("'get_schedule' returned tuple should have format", {})
     ELSE IF ~result.items_ok
     THEN Error("'get_schedule' must return a dictionary Host:List_of_tasks", {})
     ELSE IF listed(result.lists) # Tasks
     THEN Error("some tasks are left unscheduled by static algorithm", unscheduled)
     ELSE IF Cardinality(unscheduled) # Cardinality(Tasks)
     THEN Error("static scheduler should not directly schedule tasks", {})
     ELSE NoError

run_schedule_before_validation(result, g, boundary, cfg, ects, hosts_now) ==
  LET error == validate(result, hosts_now)
  IN [raised |-> error,
      sim_hosts |-> [t \in Tasks |-> IF t \in listed(result.lists)
                                     THEN host_of(result.lists, t) ELSE hosts_now[t]],
      dependencies |-> IF error # NoError THEN {}
                       ELSE injected_dependencies(g, boundary, cfg.task_exec_mode,
                              cfg.data_transfer_mode, ects, result.lists)]

\* StaticScheduler.run up to the call of simulate(): validation, then
\* task.schedule(host) for every task and the add_dependency calls.  The
\* sanity check of lines 297-307 compares the hosts of a transfer, which the
\* simulator derives from its producer and consumer, with the hosts of
\* these two tasks, and so passes.
run(result, g, boundary, cfg, ects, hosts_now) ==
  LET error == validate(result, hosts_now)
  IN IF error # NoError
     THEN [raised |-> error, sim_hosts |-> hosts_now, dependencies |-> {}]
     ELSE [raised |-> NoError,
           sim_hosts |-> [t \in Tasks |-> host_of(result.lists, t)],
           dependencies |-> injected_dependencies(g, boundary, cfg.task_exec_mode,
                              cfg.data_transfer_mode, ects, result.lists)]

\* the schedulers a run is examined with: the driver reads of the class
\* only whether it derives from StaticScheduler or DynamicScheduler
RunSchedulers == {"RoundRobinStatic", "OLB"}

\* a task every other task descends from / that descends from every other
UniversalSources(g) ==
  {t \in Tasks : construct_subtaskflow(g, t) = Tasks \ {t}}

UniversalSinks(g) ==
  {t \in Tasks : \A u \in Tasks \ {t} : t \in construct_subtaskflow(g, u)}

\* a constructed scheduler and a loaded workflow.  The loader gives the
\* workflow one source named root and one sink named end; workflows whose
\* source or sink has another name are included.  QUEUE_ECT is absent:
\* Scheduler.__init__ raises for it whatever the class.
InitRun ==
  /\ \E E \in SUBSET {p \in Tasks \X Tasks : p[1] # p[2]} :
       /\ AcyclicOn(E, Tasks)
       /\ nxgraph = [amount |-> [t \in Tasks |-> 0], weight |-> [e \in E |-> 0]]
  /\ \E roots \in SUBSET UniversalSources(nxgraph), ends \in SUBSET UniversalSinks(nxgraph) :
       boundary_tasks = roots \cup ends
  /\ \E algo \in RunSchedulers, exec_mode \in TaskExecutionMode,
        transfer_mode \in DataTransferMode \ {"QUEUE_ECT"} :
       /\ algo \in DynamicSchedulers => exec_mode = "SEQUENTIAL" /\ transfer_mode = "EAGER"
       /\ config = [algo |-> algo,
                    environ |-> [PYSIMGRID_TASK_EXECUTION |-> exec_mode,
                                 PYSIMGRID_DATA_TRANSFER |-> transfer_mode],
                    task_exec_mode |-> exec_mode,
                    data_transfer_mode |-> transfer_mode]
  /\ static_schedule = NoSchedule
  /\ sim_hosts = [t \in Tasks |-> None]
  /\ dependencies = {}
  /\ sim_state = [n \in Nodes(nxgraph) |-> "waiting"]
  /\ raised = NoError
  /\ call = NoCall
  /\ timetable = EmptyTimetable
  /\ task_states = EmptyTaskStates
  /\ ninserted = 0
  /\ platform_model = NoPlatform
  /\ ordered_tasks = <<>>
  /\ expected_makespan = NaN
  /\ pc = "constructed"
  /\ LaIdle
  /\ AlgIdle

\* the lists of distinct tasks over a set
RECURSIVE DistinctLists(_)
DistinctLists(S) ==
  {<<>>} \cup UNION {{<<t>> \o rest : rest \in DistinctLists(S \ {t})} : t \in S}

\* StaticScheduler.run, lines 187-307: get_schedule returns `result` and
\* has left the simulator's assignment result.direct
StaticRun(result) ==
  /\ pc = "constructed"
  /\ config.algo \in StaticSchedulers
  /\ LET out == run(result, nxgraph, boundary_tasks, config, task_states, result.direct)
     IN /\ sim_hosts' = out.sim_hosts
        /\ dependencies' = out.dependencies
        /\ raised' = out.raised
        /\ pc' = IF out.raised = NoError THEN "simulate" ELSE "failed"
  /\ static_schedule' = result
  /\ expected_makespan' = IF result.type = "tuple" /\ result.tuple_ok
                          THEN result.expected_makespan ELSE expected_makespan
  /\ UNCHANGED <<call, timetable, task_states, ninserted, nxgraph, platform_model,
                 ordered_tasks, laVars>>
  /\ UNCHANGED <<config, boundary_tasks, sim_state>>
  /\ UNCHANGED algVars

\* what get_schedule may hand to run: a dict or a (dict, float) tuple whose
\* lists hold each task at most once, or an ill-formed value: something
\* else, a tuple of another format, or a dict with a key that is not a host
\* or a value that is not a list beside its well-formed items
GetSchedule(result) ==
  /\ result.direct \in {[t \in Tasks |-> None],
                        [t \in Tasks |-> IF t = 1 THEN 1 ELSE None]}
  /\ \A h1, h2 \in Hosts : \A i \in 1..Len(result.lists[h1]) :
       \A j \in 1..Len(result.lists[h2]) :
         result.lists[h1][i] = result.lists[h2][j] => h1 = h2
  /\ \/ result.type \in {"dict", "tuple"} /\ result.tuple_ok /\ result.items_ok
     \/ /\ result.type = "other" /\ result.tuple_ok /\ result.items_ok
        /\ result.lists = [h \in Hosts |-> <<>>]
     \/ result.type = "tuple" /\ ~result.tuple_ok /\ result.items_ok
     \/ result.type \in {"dict", "tuple"} /\ result.tuple_ok /\ ~result.items_ok

\* ------------------------------------------------------------ simulator
\* a computation task is scheduled once task.schedule gave it a host, a
\* transfer once its producer and its consumer both are
scheduled(hosts_now, n) == hosts_now[n[1]] # None /\ hosts_now[n[2]] # None

\* what has to be done before n starts: the workflow's own precedence
\* (producer -> transfer -> consumer) and the injected dependencies
before(g, deps, n) ==
  (IF n[1] = n[2] THEN comms(g, n[1]) ELSE {TaskNode(n[1])})
  \cup {d[1] : d \in {e \in deps : e[2] = n}}

runnable(n) ==
  /\ sim_state[n] = "waiting"
  /\ scheduled(sim_hosts, n)
  /\ \A m \in before(nxgraph, dependencies, n) : sim_state[m] = "done"

SimStart(n) ==
  /\ pc = "simulate"
  /\ runnable(n)
  /\ sim_state' = [sim_state EXCEPT ![n] = "running"]
  /\ UNCHANGED <<call, timetable, task_states, ninserted, nxgraph, platform_model,
                 ordered_tasks, expected_makespan, pc, laVars>>
  /\ UNCHANGED <<config, static_schedule, boundary_tasks, sim_hosts, dependencies,
                 raised>>
  /\ UNCHANGED algVars

\* a dynamic scheduler watches every computation task for TASK_STATE_DONE:
\* simulate() returns to it when one finishes
SimFinish(n) ==
  /\ pc = "simulate"
  /\ sim_state[n] = "running"
  /\ sim_state' = [sim_state EXCEPT ![n] = "done"]
  /\ pc' = IF config.algo \in DynamicSchedulers /\ n[1] = n[2] THEN "schedule" ELSE pc
  /\ UNCHANGED <<call, timetable, task_states, ninserted, nxgraph, platform_model,
                 ordered_tasks, expected_makespan, laVars>>
  /\ UNCHANGED <<config, static_schedule, boundary_tasks, sim_hosts, dependencies,
                 raised>>
  /\ UNCHANGED algVars

\* simulate() has nothing left to run
quiescent ==
  \A n \in Nodes(nxgraph) : ~runnable(n) /\ sim_state[n] # "running"

check_done_any(states) ==
  LET unfinished == {n \in DOMAIN states : states[n] # "done"}
  IN IF unfinished = DOMAIN states /\ unfinished # {}
     THEN Error("some tasks are not finished by the end of simulation", unfinished)
     ELSE NoError

\* Scheduler._check_done
check_done(states) ==
  LET unfinished == {n \in DOMAIN states : states[n] # "done"}
  IN IF unfinished # {}
     THEN Error("some tasks are not finished by the end of simulation", unfinished)
     ELSE NoError

\* the end of run: simulate() returned without progress, then _check_done()
CheckDone ==
  /\ pc = "simulate"
  /\ quiescent
  /\ raised' = check_done(sim_state)
  /\ pc' = IF check_done(sim_state) = NoError THEN "done" ELSE "failed"
  /\ UNCHANGED <<call, timetable, task_states, ninserted, nxgraph, platform_model,
                 ordered_tasks, expected_makespan, laVars>>
  /\ UNCHANGED <<config, static_schedule, boundary_tasks, sim_hosts, dependencies,
                 sim_state>>
  /\ UNCHANGED algVars

\* DynamicScheduler.run, lines 350-358, and one pass of its loop, lines
\* 360-364: prepare and schedule are the algorithm's; they give hosts to
\* some of the tasks that have none
DynamicSchedule(assign) ==
  /\ \/ pc = "constructed" /\ config.algo \in DynamicSchedulers
     \/ pc = "schedule"
  /\ \A t \in Tasks : assign[t] # None => sim_hosts[t] = None
  /\ sim_hosts' = [t \in Tasks |-> IF assign[t] # None THEN assign[t] ELSE sim_hosts[t]]
  /\ pc' = "simulate"
  /\ UNCHANGED <<call, timetable, task_states, ninserted, nxgraph, platform_model,
                 ordered_tasks, expected_makespan, laVars>>
  /\ UNCHANGED <<config, static_schedule, boundary_tasks, dependencies, sim_state,
                 raised>>
  /\ UNCHANGED algVars

NextRun ==
  \/ /\ pc = "constructed"
     /\ \E result \in [type : {"dict", "tuple", "other"}, tuple_ok : BOOLEAN,
                       items_ok : BOOLEAN, lists : [Hosts -> DistinctLists(Tasks)],
                       direct : {[t \in Tasks |-> None],
                                 [t \in Tasks |-> IF t = 1 THEN 1 ELSE None]},
                       expected_makespan : {1}] :
          GetSchedule(result) /\ StaticRun(result)
  \/ /\ pc \in {"constructed", "schedule"}
     /\ \E assign \in [Tasks -> Hosts \cup {None}] : DynamicSchedule(assign)
  \/ \E n \in Nodes(nxgraph) : SimStart(n)
  \/ \E n \in Nodes(nxgraph) : SimFinish(n)
  \/ CheckDone

SpecRun == InitRun /\ [][NextRun]_vars

\* the lists of a schedule whose tasks may repeat, on a list or across lists
RepeatingLists == UNION {[1..n -> Tasks] : n \in 0..MaxLen}

\* StaticScheduler.run on a dictionary of such lists.  task.schedule(host)
\* is called for every entry of every list; host_of is the host of one of
\* the calls for the task.
NextRunAny ==
  \E lists \in [Hosts -> RepeatingLists] :
    StaticRun([type |-> "dict", tuple_ok |-> TRUE, items_ok |-> TRUE,
               lists |-> lists, direct |-> [t \in Tasks |-> None],
               expected_makespan |-> 1])

SpecRunAny == InitRun /\ [][NextRunAny]_vars

\* ------------------------------------------------ batch schedulers and OLB
\* BatchScheduler (batch.py) and OLB (olb.py) are dynamic schedulers: run
\* calls prepare, schedule, and then simulate and schedule in turn until
\* simulate reports no finished task.  The scheduler and the simulator it
\* drives are the record `batch`:
\*   speed        the execution hosts in the order of exec_hosts -> speed
\*   amount       task -> amount; tasks in the order of simulation.tasks
\*   edges        the dependencies between the tasks; every transfer is of
\*                0 bytes over links without latency, so get_ecomt is 0
\*   clock, state, host, finish    the simulator
\*   est, is_free, tasks           host.data of BatchScheduler
\*   target_host                   task.data of BatchScheduler
\*   queue                         OLB._queue
\*   changed      what the last simulate() returned
\*   placed       the (task, host, ect) choices of the last batch, in order
\* Times are in quarters of a second: rounding to two decimals
\* (batch.py:98) leaves every such value as it is.
BatchSchedulers == {"BatchMin", "BatchMax", "BatchSufferage"}

BatchTasks(b) == 1..Len(b.amount)

BatchHosts(b) == 1..Len(b.speed)

\* the master host, of speed 1, comes after the execution hosts
master_host(b) == Len(b.speed) + 1

\* numpy.argmin(row): the first index of the smallest value
argmax_first(row) ==
  SetMin({h \in 1..Len(row) : \A k \in 1..Len(row) : row[k] <= row[h]})

argmin(row) ==
  SetMin({h \in 1..Len(row) : \A k \in 1..Len(row) : row[h] <= row[k]})

\* numpy.partition(row, 1)[1]: the second smallest value
second_min(row) ==
  SetMin({row[k] : k \in (1..Len(row)) \ {argmin(row)}})

\* batch.py:95-101
sufferage(row) ==
  IF Len(row) > 1 THEN second_min(row) - row[argmin(row)]
  ELSE row[argmin(row)]

\* (i, best_host_idx, best_ect, sufferage) for every row; i is 0-based
possible_schedules(ECT) ==
  [i \in 1..Len(ECT) |->
     <<i - 1, argmin(ECT[i]), ECT[i][argmin(ECT[i])], sufferage(ECT[i])>>]

\* the key the class's batch_heuristic orders by, and whether it takes the
\* smallest (min) or the largest (max)
heuristic_key(cls, s) ==
  CASE cls = "BatchMin" -> <<s[3], s[1]>>
    [] cls = "BatchMax" -> <<s[3], 0 - s[1]>>
    [] cls = "BatchSufferage" -> <<s[4], 0 - s[1]>>

batch_heuristic(cls, schedules) ==
  LET key(i) == heuristic_key(cls, schedules[i])
      best == CHOOSE i \in 1..Len(schedules) :
                \A j \in (1..Len(schedules)) \ {i} :
                  IF cls = "BatchMin" THEN KeyLess(key(i), key(j))
                  ELSE KeyLess(key(j), key(i))
  IN schedules[best]

\* numpy.delete(list, t), t 1-based here
delete(list, t) == SubSeq(list, 1, t - 1) \o SubSeq(list, t + 1, Len(list))

\* the loop "build schedule", batch.py:90-122
RECURSIVE build_schedule(_, _, _, _, _)
build_schedule(cls, ECT, task_idx, host_est, clock) ==
  IF Len(ECT) = 0 THEN [est |-> host_est, placed |-> <<>>]
  ELSE LET s == batch_heuristic(cls, possible_schedules(ECT))
           t == s[1] + 1
           h == s[2]
           ect == s[3]
           task_time == ect - Max2(host_est[h], clock)
           rows == delete(ECT, t)
           updated == [i \in 1..Len(rows) |-> [rows[i] EXCEPT ![h] = @ + task_time]]
           rest == build_schedule(cls, updated, delete(task_idx, t),
                                  [host_est EXCEPT ![h] = ect], clock)
       IN [est |-> rest.est,
           placed |-> <<<<task_idx[t], h, ect>>>> \o rest.placed]

\* the tasks a batch put on host h, in the order of the choices
RECURSIVE placed_on(_, _)
placed_on(placed, h) ==
  IF placed = <<>> THEN <<>>
  ELSE (IF placed[1][2] = h THEN <<placed[1][1]>> ELSE <<>>) \o placed_on(Tail(placed), h)

\* task.get_eet(host)
get_eet(b, task, h) == b.amount[task] \div b.speed[h]

\* every host is taken to be free again
freed_hosts_all(b) == BatchHosts(b)

\* "mark freed hosts", batch.py:69-73: the hosts of the changed tasks that
\* are done, the master host left out
freed_hosts(b) ==
  {b.host[t] : t \in {u \in b.changed : b.state[u] = "done"}} \ {master_host(b)}

\* BatchScheduler.schedule
batch_schedule(cls, b) ==
  LET freed == freed_hosts(b)
      is_free == [h \in BatchHosts(b) |-> b.is_free[h] \/ h \in freed]
      unscheduled == SeqOf({t \in BatchTasks(b) :
                              b.state[t] = "schedulable" /\ b.target_host[t] = None})
      ECT == [i \in 1..Len(unscheduled) |->
                [h \in BatchHosts(b) |->
                   Max2(b.est[h], b.clock) + get_eet(b, unscheduled[i], h)]]
      built == build_schedule(cls, ECT, unscheduled, b.est, b.clock)
      target_host == [t \in BatchTasks(b) |->
                        IF \E i \in 1..Len(built.placed) : built.placed[i][1] = t
                        THEN (CHOOSE s \in {built.placed[i] : i \in 1..Len(built.placed)} :
                                s[1] = t)[2]
                        ELSE b.target_host[t]]
      tasks == [h \in BatchHosts(b) |-> b.tasks[h] \o placed_on(built.placed, h)]
      popped == {h \in BatchHosts(b) : is_free[h] /\ Len(tasks[h]) > 0}
      started == {tasks[h][1] : h \in popped}
  IN [b EXCEPT !.est = built.est,
               !.placed = built.placed,
               !.target_host = target_host,
               !.tasks = [h \in BatchHosts(b) |->
                            IF h \in popped THEN Tail(tasks[h]) ELSE tasks[h]],
               !.is_free = [h \in BatchHosts(b) |-> is_free[h] /\ h \notin popped],
               !.state = [t \in BatchTasks(b) |->
                            IF t \in started THEN "scheduled" ELSE b.state[t]],
               !.host = [t \in BatchTasks(b) |->
                           IF t \in started THEN target_host[t] ELSE b.host[t]]]

\* the sort without reverse=True
slowest_free(b, free) ==
  SetMin({h \in free : \A k \in free : b.speed[k] >= b.speed[h]})

\* free_hosts.sorted(lambda h: h.speed, reverse=True)[0]: the sort is
\* stable, so of the fastest hosts the first of the list
fastest_free(b, free) ==
  SetMin({h \in free : \A k \in free : b.speed[k] <= b.speed[h]})

\* the loop "while self._queue", olb.py:56-67
RECURSIVE olb_assign(_, _, _)
olb_assign(b, queue, free) ==
  IF queue = <<>> \/ free = {} THEN [b EXCEPT !.queue = queue]
  ELSE LET task == queue[1]
           target == fastest_free(b, free)
       IN olb_assign([b EXCEPT !.state[task] = "scheduled", !.host[task] = target],
                     Tail(queue), free \ {target})

\* schedule without the lines that fill the queue
olb_schedule_queued_only(b) ==
  LET free == {h \in BatchHosts(b) :
                 ~ \E t \in BatchTasks(b) :
                     b.state[t] \in {"running", "scheduled"} /\ b.host[t] = h}
  IN olb_assign(b, b.queue, free)

\* OLB.schedule
olb_schedule(b) ==
  LET free == {h \in BatchHosts(b) :
                 ~ \E t \in BatchTasks(b) :
                     b.state[t] \in {"running", "scheduled"} /\ b.host[t] = h}
      queued == {b.queue[i] : i \in 1..Len(b.queue)}
      queue == b.queue \o SeqOf({t \in BatchTasks(b) :
                                   b.state[t] = "schedulable" /\ t \notin queued})
  IN olb_assign(b, queue, free)

\* the algorithm's schedule method
schedule(cls, b) ==
  IF cls = "OLB" THEN olb_schedule(b) ELSE batch_schedule(cls, b)

\* simulate(): the scheduled tasks whose parents are done start, the clock
\* moves to the first finish, the tasks finishing then are done and reported (every task is
\* watched), and a task all of whose parents are done becomes schedulable
simulate(b) ==
  LET started == {t \in BatchTasks(b) :
                    /\ b.state[t] = "scheduled"
                    /\ \A p \in BatchTasks(b) :
                         <<p, t>> \in b.edges => b.state[p] = "done"}
      finish == [t \in BatchTasks(b) |->
                   IF t \in started
                   THEN b.clock + (IF b.host[t] = master_host(b) THEN b.amount[t]
                                   ELSE get_eet(b, t, b.host[t]))
                   ELSE b.finish[t]]
      running == started \cup {t \in BatchTasks(b) : b.state[t] = "running"}
      now == SetMin({finish[t] : t \in running})
      done == {t \in running : finish[t] = now}
      finished == done \cup {t \in BatchTasks(b) : b.state[t] = "done"}
  IN IF running = {} THEN [b EXCEPT !.changed = {}]
     ELSE [b EXCEPT !.clock = now,
                    !.finish = finish,
                    !.changed = done,
                    !.state = [t \in BatchTasks(b) |->
                       IF t \in done THEN "done"
                       ELSE IF t \in running THEN "running"
                       ELSE IF /\ b.state[t] = "not scheduled"
                               /\ \A p \in BatchTasks(b) :
                                    <<p, t>> \in b.edges => p \in finished
                            THEN "schedulable"
                       ELSE b.state[t]]]

\* prepare(): the state the first call of schedule finds
prepare(cls, speed, amount, edges) ==
  [cls |-> cls, speed |-> speed, amount |-> amount, edges |-> edges,
   clock |-> 0,
   state |-> [t \in 1..Len(amount) |->
                IF \E p \in 1..Len(amount) : <<p, t>> \in edges
                THEN "not scheduled" ELSE "schedulable"],
   host |-> [t \in 1..Len(amount) |-> None],
   finish |-> [t \in 1..Len(amount) |-> NaN],
   est |-> [h \in 1..Len(speed) |-> 0],
   is_free |-> [h \in 1..Len(speed) |-> TRUE],
   tasks |-> [h \in 1..Len(speed) |-> <<>>],
   target_host |-> [t \in 1..Len(amount) |-> None],
   queue |-> <<>>,
   changed |-> {},
   placed |-> <<>>]

\* prepare() on a platform with a master host: the tasks named root and end
\* go to it, batch.py:60-63 and olb.py:41-43
schedule_boundary_tasks(b, boundary) ==
  [b EXCEPT !.state = [t \in BatchTasks(b) |->
                         IF t \in boundary THEN "scheduled" ELSE b.state[t]],
            !.host = [t \in BatchTasks(b) |->
                        IF t \in boundary THEN master_host(b) ELSE b.host[t]]]

\* the tasks that may be named root and end: the only task without parents
\* and the only task without children
RootAndEnd(E) ==
  {t \in Tasks : \/ \A u \in Tasks : (~ \E p \in Tasks : <<p, u>> \in E) <=> u = t
                 \/ \A u \in Tasks : (~ \E c \in Tasks : <<u, c>> \in E) <=> u = t}

\* DynamicScheduler.run to its end: the clock then is the makespan
RECURSIVE run_to_end(_, _)
run_to_end(b, turn) ==
  IF turn = "schedule" THEN run_to_end(schedule(b.cls, b), "simulate")
  ELSE LET after == simulate(b)
       IN IF after.changed = {} THEN after ELSE run_to_end(after, "schedule")

makespan(cls, speed, amount, edges) ==
  run_to_end(prepare(cls, speed, amount, edges), "schedule").clock

BatchAmounts == {2, 4}

\* scenario S4: five independent tasks of 1 Gflop (4 quarters of a second
\* on a host of 1 Gflop/s) and execution hosts of 1, 2 and 4 Gflop/s
S4Amount == <<4, 4, 4, 4, 4>>

S4Speeds == {<<1, 2, 4>>, <<1, 4, 2>>, <<2, 1, 4>>, <<2, 4, 1>>, <<4, 1, 2>>, <<4, 2, 1>>}

\* a scheduler of one of the classes has been constructed and prepared
InitBatchOf(classes) ==
  /\ \E cls \in classes :
       \/ \E speed \in S4Speeds : batch = prepare(cls, speed, S4Amount, {})
       \/ \E m \in Hosts : \E speed \in [1..m -> Speeds], amount \in [Tasks -> BatchAmounts] :
            \E E \in SUBSET {p \in Tasks \X Tasks : p[1] # p[2]} :
              /\ AcyclicOn(E, Tasks)
              /\ \/ batch = prepare(cls, speed, amount, E)
                 \/ \E boundary \in SUBSET RootAndEnd(E) :
                      batch = schedule_boundary_tasks(
                                prepare(cls, speed,
                                        [t \in Tasks |-> IF t \in boundary THEN 0
                                                         ELSE amount[t]], E),
                                boundary)
  /\ call = NoCall
  /\ timetable = EmptyTimetable
  /\ task_states = EmptyTaskStates
  /\ ninserted = 0
  /\ nxgraph = NoGraph
  /\ platform_model = NoPlatform
  /\ ordered_tasks = <<>>
  /\ expected_makespan = NaN
  /\ pc = "schedule"
  /\ LaIdle
  /\ DrvIdle
  /\ ldcp = <<>>
  /\ peft = <<>>
  /\ dls = <<>>
  /\ hcpt = <<>>
  /\ manager = <<>>

InitBatch == InitBatchOf(BatchSchedulers \cup {"OLB"})

BatchSchedule ==
  /\ pc = "schedule"
  /\ batch' = schedule(batch.cls, batch)
  /\ pc' = "simulate"
  /\ UNCHANGED <<call, timetable, task_states, ninserted, nxgraph, platform_model,
                 ordered_tasks, expected_makespan, laVars, drvVars, ldcp, peft, dls,
                 hcpt, manager>>

BatchSimulate ==
  /\ pc = "simulate"
  /\ batch' = simulate(batch)
  /\ pc' = IF simulate(batch).changed = {} THEN "done" ELSE "schedule"
  /\ UNCHANGED <<call, timetable, task_states, ninserted, nxgraph, platform_model,
                 ordered_tasks, expected_makespan, laVars, drvVars, ldcp, peft, dls,
                 hcpt, manager>>

\* the end of DynamicScheduler.run: simulate() has returned nothing, then
\* _check_done()
BatchCheckDone ==
  /\ pc = "done"
  /\ raised' = check_done(batch.state)
  /\ pc' = IF check_done(batch.state) = NoError THEN "returned" ELSE "failed"
  /\ UNCHANGED <<call, timetable, task_states, ninserted, nxgraph, platform_model,
                 ordered_tasks, expected_makespan, laVars, algVars>>
  /\ UNCHANGED <<config, static_schedule, boundary_tasks, sim_hosts, dependencies,
                 sim_state>>

NextBatch == BatchSchedule \/ BatchSimulate \/ BatchCheckDone

SpecBatch == InitBatch /\ [][NextBatch]_vars

\* DynamicScheduler.run of an OLB scheduler; the interpreter runs it on
\* until it returns or raises
InitOLB == InitBatchOf({"OLB"})

LiveOLB == InitOLB /\ [][NextBatch]_vars /\ WF_vars(NextBatch)

\* ------------------------------------------ dynamic batch schedulers
\* batch_dyn.py. The tasks' inputs carry no data here, so the cached
\* task_time of get_ect is the execution time alone.
DynBatchSchedulers == {"DynamicBatchMin", "DynamicBatchMax", "DynamicBatchSufferage"}

DynNumTasks == 4

\* batch_dyn.py:64-67: the execution hosts without a running or scheduled task
dyn_free_hosts_all(b) == BatchHosts(b)

dyn_free_hosts(b) ==
  {h \in BatchHosts(b) :
     ~ \E t \in BatchTasks(b) :
         b.state[t] \in {"running", "scheduled"} /\ b.host[t] = h}

\* get_ect: max(est, clock) + task_time
get_ect(b, host_est, clock, task, h) == Max2(host_est, clock) + get_eet(b, task, h)

\* batch_dyn.py:88-92
dyn_sufferage(row) ==
  IF Len(row) > 1 THEN second_min(row) - row[argmin(row)]
  ELSE 0 - row[argmin(row)]

dyn_possible_schedules(ECT) ==
  [i \in 1..Len(ECT) |->
     <<i - 1, argmin(ECT[i]), ECT[i][argmin(ECT[i])], dyn_sufferage(ECT[i])>>]

dyn_heuristic_key(cls, s) ==
  CASE cls = "DynamicBatchMin" -> <<s[3], s[1]>>
    [] cls = "DynamicBatchMax" -> <<s[3], s[1]>>
    [] cls = "DynamicBatchSufferage" -> <<s[4], s[1]>>

dyn_batch_heuristic(cls, schedules) ==
  LET key(i) == dyn_heuristic_key(cls, schedules[i])
      best == CHOOSE i \in 1..Len(schedules) :
                \A j \in (1..Len(schedules)) \ {i} :
                  IF cls = "DynamicBatchMin" THEN KeyLess(key(i), key(j))
                  ELSE KeyLess(key(j), key(i))
  IN schedules[best]

\* batch_dyn.py:116-118: the row of the chosen task goes, and the column
\* of the chosen host grows by task_time
dyn_reevaluate(ECT, t, h, task_time) ==
  [i \in 1..(Len(ECT) - 1) |->
     [k \in 1..Len(ECT[1]) |->
        LET old == IF i < t THEN ECT[i][k] ELSE ECT[i + 1][k]
        IN IF k = h THEN old + task_time ELSE old]]

\* one iteration of the loop up to the re-evaluation, batch_dyn.py:85-118
dyn_step(cls, ECT, task_idx, host_est) ==
  LET s == dyn_batch_heuristic(cls, dyn_possible_schedules(ECT))
      task_time == s[3] - host_est[s[2]]
  IN [task |-> task_idx[s[1] + 1], host |-> s[2], ect |-> s[3],
      host_est |-> [host_est EXCEPT ![s[2]] = s[3]],
      task_idx |-> delete(task_idx, s[1] + 1),
      ECT |-> dyn_reevaluate(ECT, s[1] + 1, s[2], task_time)]

\* the loop "build schedule", batch_dyn.py:83-118. acc collects what the
\* loop did: est is the hosts' data["est"], scheduled the calls of
\* task.schedule, steps the matrix after every re-evaluation.
RECURSIVE dyn_build_schedule(_, _, _, _, _, _, _)
dyn_build_schedule(cls, ECT, task_idx, host_est, free_hosts, n, acc) ==
  IF n = 0 THEN acc
  ELSE LET step == dyn_step(cls, ECT, task_idx, host_est)
           placing == step.host \in free_hosts
           placed == IF placing
                     THEN [acc EXCEPT !.est[step.host] = step.ect,
                                      !.scheduled = @ \o <<<<step.task, step.host>>>>]
                     ELSE acc
       IN IF placing /\ free_hosts \ {step.host} = {} THEN placed
          ELSE dyn_build_schedule(cls, step.ECT, step.task_idx, step.host_est,
                                  free_hosts \ {step.host}, n - 1,
                                  [placed EXCEPT !.steps = @ \o <<step>>])

\* DynamicBatchScheduler.schedule
dyn_batch_schedule(b) ==
  LET free_hosts == dyn_free_hosts(b)
      tasks == SeqOf({t \in BatchTasks(b) : b.state[t] = "schedulable"})
      ECT == [i \in 1..Len(tasks) |->
                [h \in BatchHosts(b) |-> get_ect(b, b.est[h], b.clock, tasks[i], h)]]
      built == dyn_build_schedule(b.cls, ECT, tasks, b.est, free_hosts, Len(tasks),
                                  [est |-> b.est, scheduled |-> <<>>, steps |-> <<>>])
      on == [t \in BatchTasks(b) |->
               {built.scheduled[i][2] : i \in {j \in 1..Len(built.scheduled) :
                                                  built.scheduled[j][1] = t}}]
  IN [b EXCEPT !.est = built.est,
               !.free_hosts = free_hosts,
               !.considered = tasks,
               !.scheduled = built.scheduled,
               !.steps = built.steps,
               !.state = [t \in BatchTasks(b) |->
                            IF on[t] # {} THEN "scheduled" ELSE b.state[t]],
               !.host = [t \in BatchTasks(b) |->
                           IF on[t] # {} THEN CHOOSE h \in on[t] : TRUE ELSE b.host[t]]]

\* DynamicBatchScheduler.prepare, and the record of the last wakeup
dyn_prepare(cls, speed, amount, edges) ==
  [cls |-> cls, speed |-> speed, amount |-> amount, edges |-> edges,
   clock |-> 0,
   state |-> [t \in 1..Len(amount) |->
                IF \E p \in 1..Len(amount) : <<p, t>> \in edges
                THEN "not scheduled" ELSE "schedulable"],
   host |-> [t \in 1..Len(amount) |-> None],
   finish |-> [t \in 1..Len(amount) |-> NaN],
   est |-> [h \in 1..Len(speed) |-> 0],
   changed |-> {},
   free_hosts |-> {},
   considered |-> <<>>,
   scheduled |-> <<>>,
   steps |-> <<>>]

InitDynBatch ==
  /\ \E cls \in DynBatchSchedulers :
       \E m \in 1..(NumHosts + 1) :
         \E speed \in [1..m -> Speeds], amount \in [1..DynNumTasks -> BatchAmounts] :
           \E E \in SUBSET {p \in (1..DynNumTasks) \X (1..DynNumTasks) : p[1] < p[2]} :
             batch = dyn_prepare(cls, speed, amount, E)
  /\ call = NoCall
  /\ timetable = EmptyTimetable
  /\ task_states = EmptyTaskStates
  /\ ninserted = 0
  /\ nxgraph = NoGraph
  /\ platform_model = NoPlatform
  /\ ordered_tasks = <<>>
  /\ expected_makespan = NaN
  /\ pc = "schedule"
  /\ LaIdle
  /\ DrvIdle
  /\ ldcp = <<>>
  /\ peft = <<>>
  /\ dls = <<>>
  /\ hcpt = <<>>
  /\ manager = <<>>

DynSchedule ==
  /\ pc = "schedule"
  /\ batch' = dyn_batch_schedule(batch)
  /\ pc' = "simulate"
  /\ UNCHANGED <<call, timetable, task_states, ninserted, nxgraph, platform_model,
                 ordered_tasks, expected_makespan, laVars, drvVars, ldcp, peft, dls,
                 hcpt, manager>>

DynSimulate ==
  /\ pc = "simulate"
  /\ batch' = simulate(batch)
  /\ pc' = IF simulate(batch).changed = {} THEN "done" ELSE "schedule"
  /\ UNCHANGED <<call, timetable, task_states, ninserted, nxgraph, platform_model,
                 ordered_tasks, expected_makespan, laVars, drvVars, ldcp, peft, dls,
                 hcpt, manager>>

NextDynBatch == DynSchedule \/ DynSimulate

SpecDynBatch == InitDynBatch /\ [][NextDynBatch]_vars

\* ------------------------------------------------------------------ LDCP
\* ldcp.py. An LDCP object is the record ldcp: the task graph (amount,
\* weight), the platform (speed of the execution hosts, one bandwidth and
\* one latency for every route, whether there is a master host), and the
\* fields of the object. The weights are multiples of the bandwidths, so
\* weight / mean_bandwidth is an integer; the routes have no latency and
\* every edge of a graph carries the same amount of data.
LdcpNumTasks == NumTasks + 1

LdcpLatencies == {0}

LTasks == 1..LdcpNumTasks

Master == NumHosts + 1

\* the parents and the children of a task in a graph given by its edges
preds_in(E, task) == {e[1] : e \in {d \in E : d[2] = task}}

succs_in(E, task) == {e[2] : e \in {d \in E : d[1] = task}}

\* networkx: add_edge overwrites the attributes of an edge that exists
add_edge(w, from_task, to_task) == (<<from_task, to_task>> :> 0) @@ w

remove_edge(w, from_task, to_task) ==
  [e \in (DOMAIN w) \ {<<from_task, to_task>>} |-> w[e]]

\* try_schedule_boundary_task: a task named root or end (the only source,
\* the only sink; amount 0) goes to the master host when there is one
is_boundary(l, task) ==
  /\ l.master
  /\ l.amount[task] = 0
  /\ \/ preds_in(DOMAIN l.weight, task) = {}
     \/ /\ succs_in(DOMAIN l.weight, task) = {}
        /\ \A u \in LTasks \ {task} : succs_in(DOMAIN l.weight, u) # {}

\* PlatformModel.est and eet on this platform
ldcp_est(l, host, task) ==
  SetMax({0} \cup
    {IF l.task_states[p].host = host THEN l.task_states[p].ect
     ELSE l.task_states[p].ect + l.weight[<<p, task>>] \div l.bandwidth + l.latency :
       p \in preds_in(DOMAIN l.weight, task)})

ldcp_eet(l, task, host) == l.amount[task] \div l.speed[host]

\* timesheet_to_tasks
timesheet_to_tasks(timesheet) == [i \in 1..Len(timesheet) |-> timesheet[i][1]]

\* get_uras_with_term with use_only_unscheduled: the unscheduled successors
\* with the largest term
uras(l, host, task) ==
  LET graph == l.dagp[host]
      successors == succs_in(DOMAIN graph.weight, task) \cap l.unscheduled_tasks
      term(c) == graph.weight[<<task, c>>] \div l.bandwidth + l.urank[host][c]
  IN {c \in successors : \A d \in successors : term(d) <= term(c)}

\* update_urank on one DAGP: in reverse topological order, so a task's
\* value is computed from the new values of its successors
RECURSIVE urank_of(_, _, _, _)
urank_of(l, host, task, initial) ==
  IF ~ initial /\ task \in l.unscheduled_tasks THEN l.urank[host][task]
  ELSE LET graph == l.dagp[host]
       IN graph.size[task]
            + SetMax({0} \cup
                {graph.weight[<<task, c>>] \div l.bandwidth + urank_of(l, host, c, initial) :
                   c \in succs_in(DOMAIN graph.weight, task)})

\* topological_sort raises on a graph with a cycle
update_urank(l, initial) ==
  IF \A h \in Hosts : AcyclicOn(DOMAIN l.dagp[h].weight, LTasks)
  THEN [l EXCEPT !.urank = [h \in Hosts |->
                              [t \in LTasks |-> urank_of(l, h, t, initial)]]]
  ELSE [l EXCEPT !.raised = "NetworkXUnfeasible"]

\* the first of the hosts with the largest URank of a node
key_host_of(l, node) ==
  SetMin({h \in Hosts : \A k \in Hosts : l.urank[k][node] <= l.urank[h][node]})

\* get_node_predecessors with the condition "unscheduled": the unscheduled
\* tasks reached backwards through unscheduled tasks
RECURSIVE unscheduled_predecessors(_, _, _)
unscheduled_predecessors(l, E, found) ==
  LET more == {p \in l.unscheduled_tasks \ found :
                 \E n \in found : <<p, n>> \in E}
  IN IF more = {} THEN found ELSE unscheduled_predecessors(l, E, found \cup more)

\* the parents of the node only
get_schedulable_predecessors_direct(l, host, node) ==
  preds_in(DOMAIN l.dagp[host].weight, node) \cap l.schedulable_tasks

get_schedulable_predecessors(l, host, node) ==
  (unscheduled_predecessors(l, DOMAIN l.dagp[host].weight, {node}) \ {node})
    \cap l.schedulable_tasks

\* select_task_to_schedule up to update_schedulable_status: the outcomes
\* (task_to_schedule, last_identified_task, last_used_host_dagp) the
\* iteration orders of the sets allow; none when the method raises
select_task_to_schedule(l) ==
  IF l.last_identified_task = None
  THEN LET top_node == CHOOSE t \in LTasks : preds_in(DOMAIN l.weight, t) = {}
       IN {<<top_node, top_node, key_host_of(l, top_node)>>}
  ELSE UNION {
         LET key_host == key_host_of(l, key_node)
             schedulable_predecessors == get_schedulable_predecessors(l, key_host, key_node)
         IN IF key_node \in l.schedulable_tasks
            THEN {<<key_node, key_node, key_host>>}
            ELSE {<<p, l.last_identified_task, l.last_used_host_dagp>> :
                    p \in {q \in schedulable_predecessors :
                             \A r \in schedulable_predecessors :
                               l.urank[key_host][r] <= l.urank[key_host][q]}} :
         key_node \in uras(l, l.last_used_host_dagp, l.last_identified_task)}

\* update_schedulable_status and the two set updates that follow it
update_schedulable_status(l, sel) ==
  LET task == sel[1]
      kids == succs_in(DOMAIN l.weight, task)
      counts == [t \in LTasks |->
                   IF t \in kids /\ l.num_unscheduled_parents[t] > 0
                   THEN l.num_unscheduled_parents[t] - 1
                   ELSE l.num_unscheduled_parents[t]]
      ready == {t \in kids : l.num_unscheduled_parents[t] > 0 /\ counts[t] = 0}
  IN [l EXCEPT !.task_to_schedule = task,
               !.last_identified_task = sel[2],
               !.last_used_host_dagp = sel[3],
               !.num_unscheduled_parents = counts,
               !.schedulable_tasks = (@ \ {task}) \cup ready,
               !.unscheduled_tasks = @ \ {task}]

\* select_host_to_schedule
select_host_to_schedule(l) ==
  LET cand(h) ==
        LET ins == timesheet_insertion(l.timetable[h], ldcp_est(l, h, l.task_to_schedule),
                                       ldcp_eet(l, l.task_to_schedule, h))
        IN [host |-> h, pos |-> ins[1], start |-> ins[2], finish |-> ins[3]]
      key(c) == <<c.finish, l.speed[c.host], c.host>>
  IN CHOOSE c \in {cand(h) : h \in Hosts} :
       \A d \in {cand(h) : h \in Hosts} \ {c} : TupleLess(key(c), key(d))

\* assign_task_to_host
assign_task_to_host(l, c) ==
  [l EXCEPT !.host_to_schedule = c.host,
            !.timetable[c.host] = list_insert(@, c.pos, <<l.task_to_schedule, c.start, c.finish>>),
            !.task_states[l.task_to_schedule] = [ect |-> c.finish, host |-> c.host]]

update_size_wrt_selected_task(l) ==
  LET size == l.dagp[l.host_to_schedule].size[l.task_to_schedule]
  IN [l EXCEPT !.dagp = [h \in Hosts |->
                           [l.dagp[h] EXCEPT !.size[l.task_to_schedule] = size]]]

update_communications_costs(l) ==
  LET tasks == timesheet_to_tasks(l.timetable[l.host_to_schedule])
      on_host == {tasks[i] : i \in 1..Len(tasks)}
                   \cap preds_in(DOMAIN l.weight, l.task_to_schedule)
  IN [l EXCEPT !.dagp = [h \in Hosts |->
        [l.dagp[h] EXCEPT !.weight =
           [e \in DOMAIN l.dagp[h].weight |->
              IF e[2] = l.task_to_schedule /\ e[1] \in on_host THEN 0
              ELSE l.dagp[h].weight[e]]]]]

\* update_execution_constraints, add_edge_safe included
update_execution_constraints(l) ==
  LET tasks == timesheet_to_tasks(l.timetable[l.host_to_schedule])
      index == CHOOSE i \in 1..Len(tasks) : tasks[i] = l.task_to_schedule
      timesheet_predecessor == IF index > 1 THEN tasks[index - 1] ELSE None
      timesheet_successor == IF index < Len(tasks) THEN tasks[index + 1] ELSE None
      added == (IF timesheet_predecessor # None
                THEN {<<timesheet_predecessor, l.task_to_schedule>>} ELSE {})
                 \cup (IF timesheet_successor # None
                       THEN {<<l.task_to_schedule, timesheet_successor>>} ELSE {})
      w1(w) == IF timesheet_predecessor # None
               THEN add_edge(w, timesheet_predecessor, l.task_to_schedule) ELSE w
      w2(w) == IF timesheet_successor # None
               THEN add_edge(w1(w), l.task_to_schedule, timesheet_successor) ELSE w1(w)
      w3(w) == IF timesheet_predecessor # None /\ timesheet_successor # None
               THEN remove_edge(w2(w), timesheet_predecessor, timesheet_successor)
               ELSE w2(w)
  IN [l EXCEPT !.temporary_edges = [h \in Hosts |-> l.temporary_edges[h] \ added],
               !.dagp = [h \in Hosts |->
                           [l.dagp[h] EXCEPT !.weight = w3(l.dagp[h].weight)]]]

\* the tasks that get a temporary edge from the last task of the timesheet
zero_cost_targets_all(l, last_scheduled_task) ==
  LTasks \ (succs_in(DOMAIN l.dagp[l.host_to_schedule].weight, last_scheduled_task)
              \cup {last_scheduled_task})

zero_cost_targets(l, last_scheduled_task) ==
  l.schedulable_tasks
    \ succs_in(DOMAIN l.dagp[l.host_to_schedule].weight, last_scheduled_task)

\* update_zero_cost_edges_on_dagp_wrt_selected_host
update_zero_cost_edges_on_dagp_wrt_selected_host(l) ==
  LET edges_to_remove == [h \in Hosts |->
                            {e \in l.temporary_edges[h] : e[2] = l.task_to_schedule}]
      kept == [h \in Hosts |-> l.temporary_edges[h] \ edges_to_remove[h]]
      cleared == [h \in Hosts |->
                    [e \in (DOMAIN l.dagp[h].weight)
                             \ (edges_to_remove[h]
                                  \cup (IF h = l.host_to_schedule THEN kept[h] ELSE {})) |->
                       l.dagp[h].weight[e]]]
      l1 == [l EXCEPT !.dagp = [h \in Hosts |-> [l.dagp[h] EXCEPT !.weight = cleared[h]]]]
      timesheet == l.timetable[l.host_to_schedule]
      last_scheduled_task == timesheet[Len(timesheet)][1]
      new == {<<last_scheduled_task, t>> : t \in zero_cost_targets(l1, last_scheduled_task)}
  IN [l1 EXCEPT !.temporary_edges = [kept EXCEPT ![l.host_to_schedule] = new],
                !.dagp[l.host_to_schedule].weight = [e \in new |-> 0] @@ @]

\* LDCP.__init__
ldcp_init(amount, weight, speed, bandwidth, latency, master) ==
  LET l0 == [amount |-> amount, weight |-> weight, speed |-> speed,
             bandwidth |-> bandwidth, latency |-> latency, master |-> master,
             num_unscheduled_parents |->
               [t \in LTasks |-> Cardinality(preds_in(DOMAIN weight, t))],
             schedulable_tasks |-> {t \in LTasks : preds_in(DOMAIN weight, t) = {}},
             unscheduled_tasks |-> LTasks,
             temporary_edges |-> [h \in Hosts |-> {}],
             dagp |-> [h \in Hosts |->
                         [size |-> [t \in LTasks |-> amount[t] \div speed[h]],
                          weight |-> weight]],
             urank |-> [h \in Hosts |-> [t \in LTasks |-> 0]],
             task_to_schedule |-> None,
             host_to_schedule |-> None,
             last_identified_task |-> None,
             last_used_host_dagp |-> None,
             timetable |-> [h \in Hosts |-> <<>>],
             task_states |-> [t \in LTasks |-> [ect |-> NaN, host |-> None]],
             iterations |-> 0,
             raised |-> "",
             result |-> NaN]
  IN update_urank(l0, TRUE)

InitLDCP ==
  /\ \E E \in SUBSET {p \in LTasks \X LTasks : p[1] < p[2]} :
       /\ \A t \in LTasks \ {1} : preds_in(E, t) # {}
       /\ \E amount \in [LTasks -> Amounts], data \in Weights :
            \E speed \in [Hosts -> Speeds], bandwidth \in Bandwidths,
               latency \in LdcpLatencies, master \in BOOLEAN :
              ldcp = ldcp_init(amount, [e \in E |-> data], speed, bandwidth,
                               latency, master)
  /\ call = NoCall
  /\ timetable = EmptyTimetable
  /\ task_states = EmptyTaskStates
  /\ ninserted = 0
  /\ nxgraph = NoGraph
  /\ platform_model = NoPlatform
  /\ ordered_tasks = <<>>
  /\ expected_makespan = NaN
  /\ pc = "get_schedule"
  /\ LaIdle
  /\ DrvIdle
  /\ batch = <<>>
  /\ peft = <<>>
  /\ dls = <<>>
  /\ hcpt = <<>>
  /\ manager = <<>>

LdcpUnchanged ==
  UNCHANGED <<call, timetable, task_states, ninserted, nxgraph, platform_model,
              ordered_tasks, expected_makespan, laVars, drvVars, batch, peft, dls,
              hcpt, manager>>

\* an iteration of get_schedule that schedules the task on an execution host
LdcpSchedule ==
  /\ pc = "get_schedule"
  /\ ldcp.iterations < LdcpNumTasks
  /\ \E sel \in select_task_to_schedule(ldcp) :
       LET l1 == update_schedulable_status(ldcp, sel)
           l2 == assign_task_to_host(l1, select_host_to_schedule(l1))
           l3 == update_size_wrt_selected_task(l2)
           l4 == update_communications_costs(l3)
           l5 == update_execution_constraints(l4)
           l6 == update_zero_cost_edges_on_dagp_wrt_selected_host(l5)
           l7 == update_urank(l6, FALSE)
       IN /\ ~ is_boundary(ldcp, sel[1])
          /\ ldcp' = [l7 EXCEPT !.iterations = @ + 1]
          /\ pc' = IF l7.raised # "" THEN "raised" ELSE pc
  /\ LdcpUnchanged

\* an iteration that ends at "continue": the task went to the master host
LdcpBoundary ==
  /\ pc = "get_schedule"
  /\ ldcp.iterations < LdcpNumTasks
  /\ \E sel \in select_task_to_schedule(ldcp) :
       LET l1 == update_schedulable_status(ldcp, sel)
           finish == ldcp_est(l1, Master, sel[1])
       IN /\ is_boundary(ldcp, sel[1])
          /\ ldcp' = [l1 EXCEPT !.task_states[sel[1]] = [ect |-> finish, host |-> Master],
                                !.iterations = @ + 1]
  /\ pc' = pc
  /\ LdcpUnchanged

\* select_task_to_schedule raises: there is no key node, or no schedulable
\* predecessor of it
LdcpRaise ==
  /\ pc = "get_schedule"
  /\ ldcp.iterations < LdcpNumTasks
  /\ select_task_to_schedule(ldcp) = {}
  /\ ldcp' = [ldcp EXCEPT !.raised = "select_task_to_schedule"]
  /\ pc' = "raised"
  /\ LdcpUnchanged

\* the end of the loop
LdcpReturn ==
  /\ pc = "get_schedule"
  /\ ldcp.iterations = LdcpNumTasks
  /\ ldcp' = [ldcp EXCEPT !.result =
                SetMax({ldcp.task_states[t].ect : t \in LTasks})]
  /\ pc' = "done"
  /\ LdcpUnchanged

NextLDCP == LdcpSchedule \/ LdcpBoundary \/ LdcpRaise \/ LdcpReturn

SpecLDCP == InitLDCP /\ [][NextLDCP]_vars

\* ------------------------------------------------------------------ PEFT
\* peft.py and taskflow.py. A PEFTScheduler run is the record peft: the
\* workflow (the list tasks of the task names in the order of
\* simulation.tasks, amount, the edges and the data each carries), the
\* platform (speed, and one bandwidth and one latency for every route, so
\* the means of taskflow.py:74-75 are these values), and the locals of
\* get_schedule. A task's name is its number; the workflows have one
\* source and one sink, so Taskflow adds no pseudo task.
PeftNumTasks == NumTasks + 1

PTasks == 1..PeftNumTasks

\* list.index, 1-based
index_of(list, x) == CHOOSE i \in 1..Len(list) : list[i] = x

\* taskflow.matrix[task, child]: child.amount / mean_comm + mean_lat
matrix_entry(p, task, child) == p.data \div p.bandwidth + p.latency

\* Taskflow.get_children, get_parents
get_children(p, task) == {c \in PTasks : <<task, c>> \in p.edges}

get_parents(p, task) == {u \in PTasks : <<u, task>> \in p.edges}

\* the subsequence of list with the elements of S
RECURSIVE filter_list(_, _)
filter_list(list, S) ==
  IF list = <<>> THEN <<>>
  ELSE (IF list[1] \in S THEN <<list[1]>> ELSE <<>>) \o filter_list(Tail(list), S)

\* Taskflow.topological_order(reverse=True): round after round, the tasks
\* whose children are all ordered already, in the order of the list tasks
RECURSIVE topological_order(_, _)
topological_order(p, ordered) ==
  LET done == {ordered[i] : i \in 1..Len(ordered)}
      free == {t \in PTasks \ done : get_children(p, t) \subseteq done}
  IN IF done = PTasks THEN ordered
     ELSE topological_order(p, ordered \o filter_list(p.tasks, free))

\* Taskflow.end, Taskflow.root
taskflow_end(p) == CHOOSE t \in PTasks : get_children(p, t) = {}

taskflow_root(p) == CHOOSE t \in PTasks : get_parents(p, t) = {}

\* peft.py:30-41 for one task and one host: the rows of the children are
\* read at taskflow.tasks.index(child)
oct_cell(p, rt_order, oct, task, h) ==
  SetMax({0} \cup
    {SetMin({oct[index_of(p.tasks, child)][j] + p.amount[child] \div p.speed[j]
               + (IF j # h THEN matrix_entry(p, task, child) ELSE 0) : j \in Hosts}) :
       child \in get_children(p, task)})

\* the loop over the hosts, peft.py:29-41: row i is written cell by cell
RECURSIVE oct_row(_, _, _, _, _)
oct_row(p, rt_order, oct, i, h) ==
  IF h > NumHosts THEN oct
  ELSE oct_row(p, rt_order,
               [oct EXCEPT ![i][h] = oct_cell(p, rt_order, oct, rt_order[i], h)],
               i, h + 1)

\* _construct_oct: row i belongs to the i-th task of _rt_order
RECURSIVE construct_oct(_, _, _, _)
construct_oct(p, rt_order, oct, i) ==
  IF i > Len(rt_order) THEN oct
  ELSE IF rt_order[i] = taskflow_end(p) THEN construct_oct(p, rt_order, oct, i + 1)
  ELSE construct_oct(p, rt_order, oct_row(p, rt_order, oct, i, 1), i + 1)

\* _rankify_tasks: numpy.average of the row, times the number of hosts
rank_of(p, task) == SetSum(p.oct[index_of(p.rt_order, task)], Hosts)

\* the gaps of a timesheet, peft.py:58-59
gaps(timesheet) ==
  LET at == {i \in 1..(Len(timesheet) - 1) : timesheet[i][2] # timesheet[i + 1][1]}
  IN [k \in 1..Cardinality(at) |->
        LET i == CHOOSE j \in at : Cardinality({m \in at : m < j}) = k - 1
        IN <<timesheet[i][2], timesheet[i + 1][1]>>]

\* peft.py:56-75 for one host: the first gap that holds the task, and,
\* because "host not in e_host_st" is always true, the end of the timesheet
host_starts(e, duration, host, timesheet) ==
  LET gs == gaps(timesheet)
      fits == {k \in 1..Len(gs) :
                 ~ (gs[k][2] < e \/ duration > gs[k][2] - Max2(gs[k][1], e))}
      first == SetMin(fits)
      in_gap == IF fits = {} THEN <<>>
                ELSE <<<<host, Max2(gs[first][1], e), Max2(gs[first][1], e) + duration>>>>
      last_end == IF Len(timesheet) > 0 THEN timesheet[Len(timesheet)][2] ELSE 0
  IN in_gap \o <<<<host, Max2(last_end, e), Max2(last_end, e) + duration>>>>

RECURSIVE e_host_st(_, _, _, _)
e_host_st(p, e, amount, h) ==
  IF h > NumHosts THEN <<>>
  ELSE host_starts(e, amount \div p.speed[h], h, p.hosts[h]) \o e_host_st(p, e, amount, h + 1)

\* min(e_host_st, key=...): the first of the smallest
min_by_finish(p, task, list) ==
  list[SetMin({i \in 1..Len(list) : \A j \in 1..Len(list) : list[i][3] <= list[j][3]})]

\* _calc_host_start
calc_host_start(p, task, e, amount) == min_by_finish(p, task, e_host_st(p, e, amount, 1))

\* peft.py:107
peft_est(p, task) ==
  SetMax({0} \cup {p.tasks_info[u].end_time :
                     u \in {q \in get_parents(p, task) : p.tasks_info[q].host # None}})

\* the timesheet after append and sort: the entries are (start, end, task)
RECURSIVE sort_timesheet(_)
sort_timesheet(S) ==
  IF S = {} THEN <<>>
  ELSE LET m == CHOOSE x \in S : \A y \in S \ {x} : TupleLess(x, y)
       IN <<m>> \o sort_timesheet(S \ {m})

\* max(ready, key=rank): the first of the largest
max_ready(p) ==
  p.ready[SetMin({i \in 1..Len(p.ready) :
                    \A j \in 1..Len(p.ready) : rank_of(p, p.ready[j]) <= rank_of(p, p.ready[i])})]

\* one iteration of "while ready", peft.py:100-129
peft_place(p) ==
  LET task == max_ready(p)
      at == index_of(p.ready, task)
      popped == SubSeq(p.ready, 1, at - 1) \o SubSeq(p.ready, at + 1, Len(p.ready))
      e == peft_est(p, task)
      chosen == calc_host_start(p, task, e, p.amount[task])
      host == chosen[1]
      processed == p.processed \cup {task}
      ready_children == {c \in get_children(p, task) : get_parents(p, c) \subseteq processed}
      entries == {p.hosts[host][i] : i \in 1..Len(p.hosts[host])}
                   \cup {<<chosen[2], chosen[3], task>>}
  IN [p EXCEPT !.ready = popped \o filter_list(p.tasks, ready_children),
               !.tasks_info[task] = [host |-> host, start_time |-> chosen[2],
                                     end_time |-> chosen[3]],
               !.hosts[host] = sort_timesheet(entries),
               !.processed = processed,
               !.placed = [task |-> task, est |-> e, host |-> host,
                           start_time |-> chosen[2], end_time |-> chosen[3]]]

\* get_schedule up to the loop, peft.py:79-99
peft_prepare(tasks, amount, edges, data, speed, bandwidth, latency) ==
  LET p0 == [tasks |-> tasks, amount |-> amount, edges |-> edges, data |-> data,
             speed |-> speed, bandwidth |-> bandwidth, latency |-> latency,
             rt_order |-> <<>>,
             oct |-> [i \in PTasks |-> [h \in Hosts |-> 0]],
             hosts |-> [h \in Hosts |-> <<>>],
             tasks_info |-> [t \in PTasks |->
                               [host |-> None, start_time |-> NaN, end_time |-> NaN]],
             ready |-> <<>>,
             processed |-> {},
             placed |-> <<>>,
             schedule |-> <<>>]
      rt_order == topological_order(p0, <<>>)
  IN [p0 EXCEPT !.rt_order = rt_order,
                !.oct = construct_oct(p0, rt_order, p0.oct, 1),
                !.ready = <<taskflow_root(p0)>>]

\* the workflows: tasks numbered along the edges, 1 the only source and
\* the last task the only sink, listed in any order
PeftWorkflow(E) ==
  /\ \A t \in PTasks \ {1} : \E u \in PTasks : <<u, t>> \in E
  /\ \A t \in PTasks \ {PeftNumTasks} : \E c \in PTasks : <<t, c>> \in E

InitPEFT ==
  /\ \E E \in SUBSET {e \in PTasks \X PTasks : e[1] < e[2]} :
       /\ PeftWorkflow(E)
       /\ \E tasks \in Permutations(PTasks), amount \in [PTasks -> Amounts],
             data \in Weights, speed \in [Hosts -> Speeds], bandwidth \in Bandwidths :
            peft = [tasks |-> tasks, amount |-> amount, edges |-> E, data |-> data,
                    speed |-> speed, bandwidth |-> bandwidth, latency |-> 0]
  /\ call = NoCall
  /\ timetable = EmptyTimetable
  /\ task_states = EmptyTaskStates
  /\ ninserted = 0
  /\ nxgraph = NoGraph
  /\ platform_model = NoPlatform
  /\ ordered_tasks = <<>>
  /\ expected_makespan = NaN
  /\ pc = "get_schedule"
  /\ LaIdle
  /\ DrvIdle
  /\ batch = <<>>
  /\ ldcp = <<>>
  /\ dls = <<>>
  /\ hcpt = <<>>
  /\ manager = <<>>

PeftUnchanged ==
  UNCHANGED <<call, timetable, task_states, ninserted, nxgraph, platform_model,
              ordered_tasks, expected_makespan, laVars, drvVars, batch, ldcp, dls,
              hcpt, manager>>

PeftPrepare ==
  /\ pc = "get_schedule"
  /\ peft' = peft_prepare(peft.tasks, peft.amount, peft.edges, peft.data,
                          peft.speed, peft.bandwidth, peft.latency)
  /\ pc' = "while ready"
  /\ PeftUnchanged

PeftPlace ==
  /\ pc = "while ready"
  /\ peft.ready # <<>>
  /\ peft' = peft_place(peft)
  /\ pc' = pc
  /\ PeftUnchanged

PeftReturn ==
  /\ pc = "while ready"
  /\ peft.ready = <<>>
  /\ peft' = [peft EXCEPT !.schedule =
                [h \in Hosts |-> [i \in 1..Len(peft.hosts[h]) |-> peft.hosts[h][i][3]]]]
  /\ pc' = "done"
  /\ PeftUnchanged

NextPEFT == PeftPrepare \/ PeftPlace \/ PeftReturn

SpecPEFT == InitPEFT /\ [][NextPEFT]_vars

\* ------------------------------------------------------------------- DLS
\* dls.py. A run of DLS.get_schedule is the record dls: the workflow and
\* the platform as for LDCP (the tasks LTasks, one source, every edge of a
\* graph with the same amount of data, routes without latency), the
\* scheduler state, and the locals of get_schedule. mean_speed is
\* SumOfSpeeds / NumHosts, so the levels are kept multiplied by SumOfSpeeds:
\* aec, sl, unreal_dl and dl hold SumOfSpeeds times the code's values.
SumOfSpeeds(d) == SetSum(d.speed, Hosts)

\* get_tasks_sl_aec
dls_aec(d, task) == d.amount[task] * NumHosts

RECURSIVE dls_sl(_, _)
dls_sl(d, task) ==
  dls_aec(d, task)
    + SetMax({0} \cup {dls_sl(d, c) : c \in succs_in(DOMAIN d.weight, task)})

\* calculate_dl
calculate_dl(d, task, host) ==
  LET ins == timesheet_insertion(d.timetable[host], ldcp_est(d, host, task),
                                 ldcp_eet(d, task, host))
  IN d.sl[task]
       + (d.aec[task] - (d.amount[task] \div d.speed[host]) * SumOfSpeeds(d))
       - ins[2] * SumOfSpeeds(d)

\* the orders in which a set may be iterated
Orders(S) ==
  {o \in [1..Cardinality(S) -> S] : \A i, j \in 1..Cardinality(S) : i # j => o[i] # o[j]}

\* the loops of dls.py:99-111 over the pairs (host, task); the hosts in the
\* order of simulation.hosts, the queue in the order the set is iterated in
RECURSIVE select_pair(_, _, _, _, _)
select_pair(d, order, h, i, cur) ==
  IF h > NumHosts THEN cur
  ELSE IF i > Len(order) THEN select_pair(d, order, h + 1, 1, cur)
  ELSE LET task == order[i]
           value == d.dl[h][task]
       IN IF value = d.unreal_dl THEN select_pair(d, order, h, i + 1, cur)
          ELSE IF cur.cur_max = d.unreal_dl \/ value > cur.cur_max
          THEN select_pair(d, order, h, i + 1,
                           [cur_max |-> value, host_to_schedule |-> h,
                            task_to_schedule |-> task])
          ELSE select_pair(d, order, h, i + 1, cur)

select(d, order) ==
  select_pair(d, order, 1, 1,
              [cur_max |-> d.unreal_dl, host_to_schedule |-> -1, task_to_schedule |-> -1])

\* dls.py:115-120
dls_assign(d, task, host) ==
  IF is_boundary(d, task)
  THEN [d EXCEPT !.task_states[task] =
                    [ect |-> ldcp_est(d, Master, task), host |-> Master]]
  ELSE LET ins == timesheet_insertion(d.timetable[host], ldcp_est(d, host, task),
                                      ldcp_eet(d, task, host))
       IN [d EXCEPT !.timetable[host] = list_insert(@, ins[1], <<task, ins[2], ins[3]>>),
                    !.task_states[task] = [ect |-> ins[3], host |-> host]]

\* the hosts whose column is recomputed for the tasks that stay in the queue
recomputed_hosts_none(d, host) == {}

recomputed_hosts(d, host) == {host}

\* one iteration of dls.py:98-141 with the pair the loops selected
dls_iteration(d, sel) ==
  LET task == sel.task_to_schedule
      host == sel.host_to_schedule
      d1 == dls_assign(d, task, host)
      kids == succs_in(DOMAIN d.weight, task)
      undone_parents == [t \in LTasks |->
                           IF t \in kids THEN d.undone_parents[t] - 1
                           ELSE d.undone_parents[t]]
      new_tasks == {c \in kids : undone_parents[c] = 0}
      queue_tasks == d.queue_tasks \ {task}
      dl == [h \in Hosts |-> [t \in LTasks |->
               IF t \in new_tasks THEN calculate_dl(d1, t, h)
               ELSE IF t = task THEN d.unreal_dl
               ELSE IF t \in queue_tasks /\ h \in recomputed_hosts(d, host)
               THEN calculate_dl(d1, t, h)
               ELSE d.dl[h][t]]]
  IN [d1 EXCEPT !.dl = dl,
                !.undone_parents = undone_parents,
                !.waiting_tasks = @ \ new_tasks,
                !.queue_tasks = queue_tasks \cup new_tasks,
                !.new_tasks = new_tasks,
                !.task_to_schedule = task,
                !.host_to_schedule = host,
                !.iterations = @ + 1]

\* get_schedule up to the loop, dls.py:79-96
dls_prepare(amount, weight, speed, bandwidth, latency, master) ==
  LET d0 == [amount |-> amount, weight |-> weight, speed |-> speed,
             bandwidth |-> bandwidth, latency |-> latency, master |-> master,
             timetable |-> [h \in Hosts |-> <<>>],
             task_states |-> [t \in LTasks |-> [ect |-> NaN, host |-> None]]]
      aec == [t \in LTasks |-> dls_aec(d0, t)]
      sl == [t \in LTasks |-> dls_sl(d0, t)]
      unreal_dl == SumOfSpeeds(d0) + SetMax({sl[t] : t \in LTasks})
                     + SetMax({aec[t] : t \in LTasks})
      ready == {t \in LTasks : preds_in(DOMAIN weight, t) = {}}
  IN [amount |-> amount, weight |-> weight, speed |-> speed,
      bandwidth |-> bandwidth, latency |-> latency, master |-> master,
      timetable |-> d0.timetable, task_states |-> d0.task_states,
      aec |-> aec, sl |-> sl, unreal_dl |-> unreal_dl,
      dl |-> [h \in Hosts |-> [t \in LTasks |->
                IF t \in ready
                THEN sl[t] + (aec[t] - (amount[t] \div speed[h]) * SumOfSpeeds(d0))
                ELSE unreal_dl]],
      undone_parents |-> [t \in LTasks |-> Cardinality(preds_in(DOMAIN weight, t))],
      waiting_tasks |-> LTasks \ ready,
      queue_tasks |-> ready,
      new_tasks |-> {},
      task_to_schedule |-> -1,
      host_to_schedule |-> -1,
      iterations |-> 0,
      result |-> NaN]

InitDLS ==
  /\ \E E \in SUBSET {p \in LTasks \X LTasks : p[1] < p[2]} :
       /\ \A t \in LTasks \ {1} : preds_in(E, t) # {}
       /\ \E amount \in [LTasks -> Amounts], data \in Weights :
            \E speed \in [Hosts -> Speeds], bandwidth \in Bandwidths,
               latency \in LdcpLatencies, master \in BOOLEAN :
              dls = dls_prepare(amount, [e \in E |-> data], speed, bandwidth,
                                latency, master)
  /\ call = NoCall
  /\ timetable = EmptyTimetable
  /\ task_states = EmptyTaskStates
  /\ ninserted = 0
  /\ nxgraph = NoGraph
  /\ platform_model = NoPlatform
  /\ ordered_tasks = <<>>
  /\ expected_makespan = NaN
  /\ pc = "get_schedule"
  /\ LaIdle
  /\ DrvIdle
  /\ batch = <<>>
  /\ ldcp = <<>>
  /\ peft = <<>>
  /\ hcpt = <<>>
  /\ manager = <<>>

DlsUnchanged ==
  UNCHANGED <<call, timetable, task_states, ninserted, nxgraph, platform_model,
              ordered_tasks, expected_makespan, laVars, drvVars, batch, ldcp, peft,
              hcpt, manager>>

\* one iteration of the loop; the set queue_tasks is iterated in some order
DlsIteration ==
  /\ pc = "get_schedule"
  /\ dls.iterations < LdcpNumTasks
  /\ \E order \in Orders(dls.queue_tasks) :
       dls' = dls_iteration(dls, select(dls, order))
  /\ pc' = pc
  /\ DlsUnchanged

DlsReturn ==
  /\ pc = "get_schedule"
  /\ dls.iterations = LdcpNumTasks
  /\ dls' = [dls EXCEPT !.result = SetMax({dls.task_states[t].ect : t \in LTasks})]
  /\ pc' = "done"
  /\ DlsUnchanged

NextDLS == DlsIteration \/ DlsReturn

SpecDLS == InitDLS /\ [][NextDLS]_vars

\* ------------------------------------------------------------------ HCPT
\* hcpt.py. The record hcpt holds the graph and the platform as the LDCP
\* record does (amount, weight, speed, bandwidth, latency, master), the
\* SchedulerState (timetable, task_states) and the locals of get_schedule:
\*   aest, alst   get_tasks_aest_alst, multiplied by SumOfSpeeds * bandwidth
\*   stack        the deque stack, its right end last
\*   queue        the deque queue, its left end first
\*   task         the task of the running iteration of either loop
\*   scheduled    the set of the second loop
\*   taken        the tasks the second loop went on with, in that order
\*   result       expected_makespan

\* aec and the cost of a transfer, multiplied by SumOfSpeeds * bandwidth
hcpt_aec(h, task) == h.amount[task] * NumHosts * h.bandwidth

hcpt_comm(h, from_task, to_task) ==
  h.weight[<<from_task, to_task>>] * SumOfSpeeds(h)
    + h.latency * SumOfSpeeds(h) * h.bandwidth

\* hcpt.py:125-139
RECURSIVE hcpt_aest(_, _)
hcpt_aest(h, task) ==
  LET parents == preds_in(DOMAIN h.weight, task)
  IN IF parents = {} THEN 0
     ELSE SetMax({hcpt_aest(h, p) + hcpt_aec(h, p) + hcpt_comm(h, p, task) :
                    p \in parents})

\* hcpt.py:143-153
RECURSIVE hcpt_alst(_, _)
hcpt_alst(h, task) ==
  LET succs == succs_in(DOMAIN h.weight, task)
  IN IF succs = {} THEN hcpt_aest(h, task)
     ELSE SetMin({hcpt_alst(h, c) - hcpt_comm(h, task, c) : c \in succs})
            - hcpt_aec(h, task)

\* get_tasks_aest_alst
get_tasks_aest_alst(h) ==
  [aest |-> [t \in LTasks |-> hcpt_aest(h, t)],
   alst |-> [t \in LTasks |-> hcpt_alst(h, t)]]

\* the ancestors of a task
RECURSIVE ancestors(_, _)
ancestors(E, task) ==
  preds_in(E, task) \cup UNION {ancestors(E, p) : p \in preds_in(E, task)}

\* sorted(..., key=aest) of a set: the sort is stable, and the set comes in
\* any order
sorted_by_aest(aest, S) ==
  {o \in Orders(S) : \A i, j \in 1..Cardinality(S) : i < j => aest[o[i]] <= aest[o[j]]}

\* hcpt.py:54-58 before the reverse: the tasks with AEST = ALST sorted by
\* AEST; tasks_aest is filled in a topological order, which the stable sort
\* keeps among equal AEST
critical_paths(h, aest, alst) ==
  LET critical == {t \in LTasks : aest[t] = alst[t]}
  IN {o \in sorted_by_aest(aest, critical) :
        \A i, j \in 1..Cardinality(critical) :
          i < j => o[j] \notin ancestors(DOMAIN h.weight, o[i])}

reverse(list) == [i \in 1..Len(list) |-> list[Len(list) + 1 - i]]

\* get_schedule up to the first loop, hcpt.py:48-61: what it may leave
hcpt_prepare(h0) ==
  LET tables == get_tasks_aest_alst(h0)
  IN {[amount |-> h0.amount, weight |-> h0.weight, speed |-> h0.speed,
       bandwidth |-> h0.bandwidth, latency |-> h0.latency, master |-> h0.master,
       timetable |-> [host \in Hosts |-> <<>>],
       task_states |-> [t \in LTasks |-> [ect |-> NaN, host |-> None]],
       aest |-> tables.aest, alst |-> tables.alst,
       stack |-> reverse(critical_path),
       queue |-> <<>>,
       task |-> None,
       scheduled |-> {},
       taken |-> <<>>,
       result |-> NaN] :
        critical_path \in critical_paths(h0, tables.aest, tables.alst)}

\* the iteration pushes the parents under the task
hcpt_traverse_parents_below(h) ==
  LET task == h.stack[Len(h.stack)]
      rest == SubSeq(h.stack, 1, Len(h.stack) - 1)
      parents == preds_in(DOMAIN h.weight, task)
      untracked == parents \ {h.queue[i] : i \in 1..Len(h.queue)}
  IN IF untracked # {}
     THEN {[h EXCEPT !.task = task, !.stack = rest \o untracked_parents \o <<task>>] :
             untracked_parents \in sorted_by_aest(h.aest, untracked)}
     ELSE {[h EXCEPT !.task = task, !.stack = rest, !.queue = Append(@, task)]}

\* what an iteration of the first loop may leave, hcpt.py:63-74
hcpt_traverse(h) ==
  LET task == h.stack[Len(h.stack)]
      rest == SubSeq(h.stack, 1, Len(h.stack) - 1)
      parents == preds_in(DOMAIN h.weight, task)
      untracked == parents \ {h.queue[i] : i \in 1..Len(h.queue)}
  IN IF untracked # {}
     THEN {[h EXCEPT !.task = task, !.stack = rest \o <<task>> \o untracked_parents] :
             untracked_parents \in sorted_by_aest(h.aest, untracked)}
     ELSE {[h EXCEPT !.task = task, !.stack = rest, !.queue = Append(@, task)]}

\* hcpt.py:85-98: the host of the smallest (finish, speed, name)
hcpt_place(h, task) ==
  LET candidates ==
        {LET ins == timesheet_insertion(h.timetable[host], ldcp_est(h, host, task),
                                        ldcp_eet(h, task, host))
         IN [host |-> host, pos |-> ins[1], start |-> ins[2], finish |-> ins[3]] :
           host \in Hosts}
      c == MinSelector(h, candidates)
  IN [h EXCEPT !.timetable[c.host] = list_insert(@, c.pos, <<task, c.start, c.finish>>),
               !.task_states[task] = [ect |-> c.finish, host |-> c.host]]

\* one bandwidth: with the amounts of data of Weights the transfers take
\* no time or as long as a task of Amounts on the slowest host
HcptBandwidths == {1}

InitHCPT ==
  /\ \E E \in SUBSET {p \in LTasks \X LTasks : p[1] < p[2]} :
       \E amount \in [LTasks -> Amounts], data \in Weights :
         \E speed \in [Hosts -> Speeds], bandwidth \in HcptBandwidths,
            latency \in LdcpLatencies, master \in BOOLEAN :
           hcpt = [amount |-> amount, weight |-> [e \in E |-> data], speed |-> speed,
                   bandwidth |-> bandwidth, latency |-> latency, master |-> master]
  /\ call = NoCall
  /\ timetable = EmptyTimetable
  /\ task_states = EmptyTaskStates
  /\ ninserted = 0
  /\ nxgraph = NoGraph
  /\ platform_model = NoPlatform
  /\ ordered_tasks = <<>>
  /\ expected_makespan = NaN
  /\ pc = "get_schedule"
  /\ LaIdle
  /\ DrvIdle
  /\ batch = <<>>
  /\ ldcp = <<>>
  /\ peft = <<>>
  /\ dls = <<>>
  /\ manager = <<>>

HcptUnchanged ==
  UNCHANGED <<call, timetable, task_states, ninserted, nxgraph, platform_model,
              ordered_tasks, expected_makespan, laVars, drvVars, batch, ldcp, peft,
              dls, manager>>

\* get_schedule up to the first loop
HcptPrepare ==
  /\ pc = "get_schedule"
  /\ hcpt' \in hcpt_prepare(hcpt)
  /\ pc' = "stack"
  /\ HcptUnchanged

\* an iteration of "while len(stack)"
HcptTraverse ==
  /\ pc = "stack"
  /\ hcpt.stack # <<>>
  /\ hcpt' \in hcpt_traverse(hcpt)
  /\ pc' = pc
  /\ HcptUnchanged

\* the first loop ends
HcptTraversed ==
  /\ pc = "stack"
  /\ hcpt.stack = <<>>
  /\ pc' = "queue"
  /\ UNCHANGED hcpt
  /\ HcptUnchanged

\* an iteration of "while len(queue)" that meets a task again
HcptRepeat ==
  /\ pc = "queue"
  /\ hcpt.queue # <<>>
  /\ Head(hcpt.queue) \in hcpt.scheduled
  /\ hcpt' = [hcpt EXCEPT !.task = Head(hcpt.queue), !.queue = Tail(@)]
  /\ pc' = pc
  /\ HcptUnchanged

\* an iteration that sends the task to the master host
HcptBoundary ==
  /\ pc = "queue"
  /\ hcpt.queue # <<>>
  /\ LET task == Head(hcpt.queue)
     IN /\ task \notin hcpt.scheduled
        /\ is_boundary(hcpt, task)
        /\ hcpt' = [hcpt EXCEPT !.task = task,
                                !.queue = Tail(@),
                                !.scheduled = @ \cup {task},
                                !.taken = Append(@, task),
                                !.task_states[task] =
                                   [ect |-> ldcp_est(hcpt, Master, task), host |-> Master]]
  /\ pc' = pc
  /\ HcptUnchanged

\* an iteration that places the task on an execution host
HcptPlace ==
  /\ pc = "queue"
  /\ hcpt.queue # <<>>
  /\ LET task == Head(hcpt.queue)
     IN /\ task \notin hcpt.scheduled
        /\ ~ is_boundary(hcpt, task)
        /\ hcpt' = hcpt_place([hcpt EXCEPT !.task = task,
                                           !.queue = Tail(@),
                                           !.scheduled = @ \cup {task},
                                           !.taken = Append(@, task)], task)
  /\ pc' = pc
  /\ HcptUnchanged

\* hcpt.py:100-101
HcptReturn ==
  /\ pc = "queue"
  /\ hcpt.queue = <<>>
  /\ hcpt' = [hcpt EXCEPT !.result =
                SetMax({hcpt.task_states[t].ect : t \in LTasks})]
  /\ pc' = "done"
  /\ HcptUnchanged

NextHCPT ==
  HcptPrepare \/ HcptTraverse \/ HcptTraversed \/ HcptRepeat \/ HcptBoundary \/ HcptPlace \/ HcptReturn

SpecHCPT == InitHCPT /\ [][NextHCPT]_vars

\* ------------------------------------------------------ testbed manager
\* src/testbed/manager.py and agent_client.py.  Manager.run executes
\* schedule() on the main thread; every TASK_STATE message of an agent is
\* handled on the thread of the I/O loop the agents' clients share
\* (agent_client.py:36), one message at a time, and a message with a final
\* state makes that thread execute schedule() as well.  Nothing locks the
\* manager's fields.  A manager, its agents and the two threads are the
\* record `manager`:
\*   deps             task -> task['deps']; the tasks in the order of the list
\*   state, host      task -> task['state'], task['host']
\*   host_state       host -> host['state']
\*   completed_tasks, finish_ts (whether it is set)
\*   jobs             what the agents were sent by submit_task, in order:
\*                    the task, the host, and the state last reported
\*   threads          for "main" and "ioloop": where the thread is (pc) and
\*                    the locals idle_hosts and task (a position) of the
\*                    schedule() it executes
\* A step of a thread is as much of a method as runs between two points
\* where the other thread's writes matter: collecting the idle hosts, the
\* tests of lines 67-73 on one task, and the writes of the branch taken.
ManagerThreads == {"main", "ioloop"}

FinalStates == {"DONE", "FAILED", "CANCELED"}

\* a position in schedule(): the thread th is at pc with these locals
thread_at(m, th, pc_, idle_hosts, task) ==
  [m EXCEPT !.threads[th] = [pc |-> pc_, idle_hosts |-> idle_hosts, task |-> task]]

\* the thread leaves schedule(): main goes on to the loop of line 49, the
\* I/O loop to the next message
leave(m, th) ==
  thread_at(m, th, IF th = "main" THEN "wait" ELSE "idle", <<>>, 0)

\* Manager.__init__ and run up to the call of schedule()
manager_run(deps) ==
  [deps |-> deps,
   state |-> [t \in Tasks |-> "READY"],
   host |-> [t \in Tasks |-> None],
   host_state |-> [h \in Hosts |-> "IDLE"],
   completed_tasks |-> 0,
   finish_ts |-> FALSE,
   jobs |-> <<>>,
   threads |-> [th \in ManagerThreads |->
                  [pc |-> IF th = "main" THEN "schedule" ELSE "idle",
                   idle_hosts |-> <<>>, task |-> 0]]]

\* lines 60-63
find_idle_hosts(m, th) ==
  thread_at(m, th, "loop", SeqOf({h \in Hosts : m.host_state[h] = "IDLE"}), 1)

\* lines 66-73 and 101, 104 for the task at the thread's position: which
\* branch the iteration takes
examine(m, th) ==
  LET me == m.threads[th]
      parent_states == {m.state[d] : d \in m.deps[me.task]}
      branch == IF m.state[me.task] # "READY" THEN "next"
                ELSE IF parent_states = {} \/ parent_states = {"DONE"} THEN "submit"
                ELSE IF "FAILED" \in parent_states THEN "FAILED"
                ELSE IF "CANCELED" \in parent_states THEN "CANCELED"
                ELSE "next"
  IN IF branch = "next"
     THEN thread_at(m, th, "loop", me.idle_hosts, me.task + 1)
     ELSE thread_at(m, th, branch, me.idle_hosts, me.task)

\* lines 85-99
submit(m, th) ==
  LET me == m.threads[th]
      host_id == Head(me.idle_hosts)
  IN thread_at([m EXCEPT !.state[me.task] = "SCHEDULED",
                         !.host[me.task] = host_id,
                         !.host_state[host_id] = "ALLOCATED",
                         !.jobs = Append(@, [task |-> me.task, host |-> host_id,
                                             state |-> "SUBMITTED"])],
               th, "loop", Tail(me.idle_hosts), me.task + 1)

\* lines 102-103 and 105-106
mark(m, th) ==
  LET me == m.threads[th]
  IN thread_at([m EXCEPT !.state[me.task] = me.pc,
                         !.completed_tasks = @ + 1],
               th, "loop", me.idle_hosts, me.task + 1)

\* on_task_state_change for job j reported in task_state, up to the call
\* of schedule()
on_task_state_change(m, j, task_state) ==
  LET task == m.jobs[j].task
      m1 == [m EXCEPT !.jobs[j].state = task_state,
                      !.state[task] = task_state]
  IN IF task_state \notin FinalStates THEN m1
     ELSE LET m2 == [m1 EXCEPT !.host_state[m.host[task]] = "IDLE",
                               !.completed_tasks = @ + 1]
          IN IF m2.completed_tasks < NumTasks
             THEN thread_at(m2, "ioloop", "schedule", <<>>, 0)
             ELSE [m2 EXCEPT !.finish_ts = TRUE]

\* the task lists with their dependencies: every acyclic relation, the
\* list in any order
InitManager ==
  /\ \E E \in SUBSET {p \in Tasks \X Tasks : p[1] # p[2]} :
       /\ AcyclicOn(E, Tasks)
       /\ manager = manager_run([t \in Tasks |-> preds_in(E, t)])
  /\ call = NoCall
  /\ timetable = EmptyTimetable
  /\ task_states = EmptyTaskStates
  /\ ninserted = 0
  /\ nxgraph = NoGraph
  /\ platform_model = NoPlatform
  /\ ordered_tasks = <<>>
  /\ expected_makespan = NaN
  /\ pc = "run"
  /\ LaIdle
  /\ DrvIdle
  /\ batch = <<>>
  /\ ldcp = <<>>
  /\ peft = <<>>
  /\ dls = <<>>
  /\ hcpt = <<>>

ManagerUnchanged ==
  UNCHANGED <<call, timetable, task_states, ninserted, nxgraph, platform_model,
              ordered_tasks, expected_makespan, laVars, drvVars, batch, ldcp, peft,
              dls, hcpt>>

\* schedule(), lines 60-63
ManagerIdleHosts(th) ==
  /\ manager.threads[th].pc = "schedule"
  /\ manager' = find_idle_hosts(manager, th)
  /\ pc' = pc
  /\ ManagerUnchanged

\* schedule(), lines 66-73, 101 and 104
ManagerExamine(th) ==
  /\ manager.threads[th].pc = "loop"
  /\ manager.threads[th].task <= NumTasks
  /\ manager.threads[th].idle_hosts # <<>>
  /\ manager' = examine(manager, th)
  /\ pc' = pc
  /\ ManagerUnchanged

\* schedule(), lines 85-99
ManagerSubmit(th) ==
  /\ manager.threads[th].pc = "submit"
  /\ manager' = submit(manager, th)
  /\ pc' = pc
  /\ ManagerUnchanged

\* schedule(), lines 102-103 and 105-106
ManagerMark(th) ==
  /\ manager.threads[th].pc \in {"FAILED", "CANCELED"}
  /\ manager' = mark(manager, th)
  /\ pc' = pc
  /\ ManagerUnchanged

\* schedule() returns: the list is exhausted or no idle host is left
ManagerScheduled(th) ==
  /\ manager.threads[th].pc = "loop"
  /\ \/ manager.threads[th].task > NumTasks
     \/ manager.threads[th].idle_hosts = <<>>
  /\ manager' = leave(manager, th)
  /\ pc' = pc
  /\ ManagerUnchanged

\* the agent of job j reports a state of the job, and the I/O loop runs
\* on_message and on_task_state_change for it
ManagerTaskState(j, task_state) ==
  /\ manager.threads["ioloop"].pc = "idle"
  /\ manager.jobs[j].state \notin FinalStates
  /\ task_state = "RUNNING" => manager.jobs[j].state = "SUBMITTED"
  /\ manager' = on_task_state_change(manager, j, task_state)
  /\ pc' = pc
  /\ ManagerUnchanged

\* run, lines 49-54
ManagerReturn ==
  /\ pc = "run"
  /\ manager.threads["main"].pc = "wait"
  /\ manager.completed_tasks >= NumTasks
  /\ manager' = thread_at(manager, "main", "returned", <<>>, 0)
  /\ pc' = "returned"
  /\ ManagerUnchanged

NextManager ==
  \/ \E th \in ManagerThreads : ManagerIdleHosts(th)
  \/ \E th \in ManagerThreads : ManagerExamine(th)
  \/ \E th \in ManagerThreads : ManagerSubmit(th)
  \/ \E th \in ManagerThreads : ManagerMark(th)
  \/ \E th \in ManagerThreads : ManagerScheduled(th)
  \/ \E j \in DOMAIN manager.jobs, task_state \in FinalStates \cup {"RUNNING"} :
       ManagerTaskState(j, task_state)
  \/ ManagerReturn

SpecManager == InitManager /\ [][NextManager]_vars

\* ------------------------------------------------- timesheet properties
\* C1 (timesheet monotonicity): in every state reached by inserting at the
\* position timesheet_insertion returned, with est >= 0 and eet >= 0, every
\* host's entries satisfy finish[i] <= start[i+1], start <= finish, start >= 0.
C1_TimesheetMonotone ==
  \A h \in Hosts :
    /\ \A i \in 1..Len(timetable[h]) :
         /\ timetable[h][i][2] >= 0
         /\ timetable[h][i][2] <= timetable[h][i][3]
    /\ \A i \in 1..(Len(timetable[h]) - 1) :
         timetable[h][i][3] <= timetable[h][i + 1][2]

\* a task went into a gap between two entries already on the host
C1_Witness ==
  /\ pc = "state"
  /\ call.result # <<>>
  /\ Len(call.timesheet) >= 2
  /\ call.result[1] = 1
  /\ call.eet > 0
  /\ \E h \in Hosts : Len(timetable[h]) = 3

\* the least pair (1-based) whose slot is at least eet, 0 when there is none
FirstGapAtLeast(timesheet, e, d) ==
  LET holds == {i \in 1..Len(timesheet) : slot(timesheet, e, i) >= d}
  IN IF holds = {} THEN 0 ELSE SetMin(holds)

\* C2 (gap acceptance): the gap before entry i+1 is accepted whenever
\* s_{i+1} - max(f_i, est) >= eet, exact fit included; the result is then
\* position = index of the later entry, start = max(f_i, est),
\* finish = start + eet.
C2_GapAcceptedWhenAtLeastEet ==
  (pc = "insertion" /\ call.result # <<>>) =>
    LET ts == call.timesheet
        i == FirstGapAtLeast(ts, call.est, call.eet)
        start == Max2(extended(ts, i)[3], call.est)
    IN i # 0 => call.result = <<i - 1, start, start + call.eet>>

ExampleSheet == <<<<2, 0, 5>>, <<1, 10, 12>>>>

\* C3 (first fit, append fallback): the result is the lowest position whose
\* preceding gap holds the task at or after est; with no such gap the
\* position is len(timesheet), start = max(last finish, est) (est when the
\* timesheet is empty), finish = start + eet; [(A,0,5),(B,10,12)], est = 0,
\* eet = 3 gives (1, 5, 8).
C3_FirstFitOrAppend ==
  (pc = "insertion" /\ call.result # <<>>) =>
    LET ts == call.timesheet
        i == FirstGapAtLeast(ts, call.est, call.eet)
        last == IF ts = <<>> THEN call.est ELSE Max2(ts[Len(ts)][3], call.est)
    IN /\ i # 0 => call.result[1] = i - 1
       /\ i = 0 => call.result = <<Len(ts), last, last + call.eet>>
       /\ (ts = ExampleSheet /\ call.est = 0 /\ call.eet = 3) =>
            call.result = <<1, 5, 8>>

\* C10 (state consistency): for every placed task t, task_states[t].ect is
\* the finish field of t's timesheet entry and task_states[t].host is the
\* host whose timesheet holds that entry.
C10_StateConsistent ==
  \A t \in Tasks :
    task_states[t].host # None =>
      /\ \E i \in 1..Len(timetable[task_states[t].host]) :
           /\ timetable[task_states[t].host][i][1] = t
           /\ timetable[task_states[t].host][i][3] = task_states[t].ect
      /\ \A h \in Hosts : \A i \in 1..Len(timetable[h]) :
           timetable[h][i][1] = t =>
             (h = task_states[t].host /\ timetable[h][i][3] = task_states[t].ect)

\* all tasks placed, on more than one host, one of them moved into a gap
\* in front of an earlier task
C10_Witness ==
  /\ pc = "state"
  /\ ninserted = NumTasks
  /\ \A h \in 1..2 : timetable[h] # <<>>
  /\ \E h \in Hosts : \E i \in 1..(Len(timetable[h]) - 1) :
       /\ timetable[h][i][1] > timetable[h][i + 1][1]
       /\ timetable[h][i][3] > timetable[h][i][2]

\* ------------------------------------------------------ HEFT properties
\* the places (host, index) at which a task appears in the timetable
Places(task) ==
  {p \in Hosts \X (1..NumTasks) :
     p[2] <= Len(timetable[p[1]]) /\ timetable[p[1]][p[2]][1] = task}

StartOf(task) ==
  LET p == CHOOSE q \in Places(task) : TRUE IN timetable[p[1]][p[2]][2]

\* C4 (completeness): after HEFT's get_schedule every task is in exactly one
\* host's timesheet and appears there exactly once.
C4_Completeness ==
  pc = "done" => \A t \in Tasks : Cardinality(Places(t)) = 1

\* HEFT returned a schedule that uses more than one host and in which one
\* task was inserted in front of a task placed before it
C4_Witness ==
  /\ pc = "done"
  /\ \A h \in 1..2 : timetable[h] # <<>>
  /\ \E h \in Hosts : \E i \in 1..(Len(timetable[h]) - 1) : \E j, k \in 1..NumTasks :
       /\ ordered_tasks[j] = timetable[h][i][1]
       /\ ordered_tasks[k] = timetable[h][i + 1][1]
       /\ j > k

ecomt(pm, weight, src, dst) ==
  IF src = dst THEN 0 ELSE weight \div pm.bandwidth[<<src, dst>>] + pm.latency[<<src, dst>>]

\* C5 (precedence): in the state HEFT produces, for every edge u -> v,
\* ect[u] + ecomt(edge, host[u], host[v]) <= start[v].
C5_Precedence ==
  pc = "done" =>
    \A e \in Edges(nxgraph) :
      task_states[e[1]].ect
        + ecomt(platform_model, nxgraph.weight[e], task_states[e[1]].host,
                task_states[e[2]].host)
        <= StartOf(e[2])

\* an edge with data to move joins two hosts, and the child starts exactly
\* when the data arrives
C5_Witness ==
  /\ pc = "done"
  /\ \E e \in Edges(nxgraph) :
       /\ task_states[e[1]].host # task_states[e[2]].host
       /\ nxgraph.weight[e] > 0
       /\ platform_model.latency[<<task_states[e[1]].host, task_states[e[2]].host>>] > 0
       /\ StartOf(e[2]) = task_states[e[1]].ect
            + ecomt(platform_model, nxgraph.weight[e], task_states[e[1]].host,
                    task_states[e[2]].host)

IndexIn(seq, x) == CHOOSE i \in 1..Len(seq) : seq[i] = x

\* C6 (ranku topological consistency): for every acyclic graph with
\* non-negative amounts and weights the list heft_order returns puts every
\* task after all of its parents.
C6_HeftOrderTopological ==
  ordered_tasks # <<>> =>
    \A e \in Edges(nxgraph) : IndexIn(ordered_tasks, e[1]) < IndexIn(ordered_tasks, e[2])

\* the timetable before the last placement
LastTask == ordered_tasks[ninserted]

Without(timesheet, task) ==
  LET keep(entry) == entry[1] # task IN SelectSeq(timesheet, keep)

TimetableBefore == [h \in Hosts |-> Without(timetable[h], LastTask)]

FinishOn(h) ==
  timesheet_insertion(TimetableBefore[h],
                      est(nxgraph, platform_model, h, LastTask, task_states),
                      eet(nxgraph, platform_model, LastTask, h))[3]

KeyBefore(h, k) ==
  \/ FinishOn(h) < FinishOn(k)
  \/ /\ FinishOn(h) = FinishOn(k)
     /\ platform_model.speed[h] < platform_model.speed[k]
  \/ /\ FinishOn(h) = FinishOn(k)
     /\ platform_model.speed[h] = platform_model.speed[k]
     /\ h < k

\* C9 (HEFT host selection): each task, in the given order, is placed on the
\* host with the smallest key (finish, host.speed, host.name), finish being
\* the result of gap-aware insertion at the task's earliest start time on
\* that host.
C9_HostSelection ==
  (pc = "heft_schedule" /\ ninserted > 0) =>
    LET h == task_states[LastTask].host
    IN /\ \A k \in Hosts \ {h} : KeyBefore(h, k)
       /\ task_states[LastTask].ect = FinishOn(h)

\* two hosts offered the same finish time and the slower one, which has the
\* larger name, was taken; the task has work to do
C9_Witness ==
  /\ pc = "heft_schedule"
  /\ ninserted > 1
  /\ nxgraph.amount[LastTask] > 0
  /\ task_states[LastTask].host = 2
  /\ FinishOn(1) = FinishOn(2)
  /\ platform_model.speed[2] < platform_model.speed[1]

\* ------------------------------------------------- Lookahead properties
HeftResult ==
  heft_schedule(nxgraph, platform_model,
                [task_states |-> EmptyTaskStates, schedule |-> EmptyTimetable],
                ordered_tasks, 1)

Ordered(timesheet) ==
  /\ \A i \in 1..Len(timesheet) : timesheet[i][2] <= timesheet[i][3]
  /\ \A i \in 1..(Len(timesheet) - 1) : timesheet[i][3] <= timesheet[i + 1][2]

\* C11 (update rejects a position that breaks the order): when update is
\* called on an ordered timesheet with a position at which the new entry
\* would break the start-sorted, non-overlapping order, the call raises
\* InvalidState and neither the timetable nor the task states change.
C11_UpdateRejectsDisorder ==
  [][(/\ pc = "update"
      /\ call' # call
      /\ Ordered(timetable[call'.host])
      /\ ~Ordered(list_insert(timetable[call'.host], call'.pos,
                              <<call'.task, call'.start, call'.finish>>)))
     => (/\ raised'.type = "InvalidState"
         /\ timetable' = timetable
         /\ task_states' = task_states)]_vars

\* --------------------------------------- scheduler construction properties
\* C18 (QUEUE_ECT needs HEFT or Lookahead): with DATA_TRANSFER = QUEUE_ECT
\* the HEFT scheduler and the Lookahead scheduler are constructed, and every
\* other scheduler fails with an error.
C18_QueueEctOnlyHeftLookahead ==
  (/\ pc \in {"constructed", "failed"}
   /\ config.environ.PYSIMGRID_DATA_TRANSFER = "QUEUE_ECT"
   /\ config.environ.PYSIMGRID_TASK_EXECUTION \in TaskExecutionMode \cup {""})
  => (pc = "constructed" <=> config.algo \in {"HEFTScheduler", "LookaheadScheduler"})

\* ------------------------------------------------ dispatch driver properties
\* a static run has passed validation and injected its constraints
Dispatched == pc = "simulate" /\ config.algo \in StaticSchedulers

\* the pairs (host, i) such that list[i], list[i + 1] are consecutive on host
ConsecutivePairs ==
  {q \in Hosts \X (1..NumTasks) : q[2] < Len(static_schedule.lists[q[1]])}

PrevOf(q) == static_schedule.lists[q[1]][q[2]]

TaskOf(q) == static_schedule.lists[q[1]][q[2] + 1]

\* C12 (SEQUENTIAL injection), as claimed: for every host list and every
\* pair of consecutive tasks (prev, task), the dependency prev -> task is
\* injected exactly when prev is not a parent of task.
C12_SequentialInjection ==
  (Dispatched /\ config.task_exec_mode = "SEQUENTIAL")
  => \A q \in ConsecutivePairs :
       <<TaskNode(PrevOf(q)), TaskNode(TaskOf(q))>> \in dependencies
         <=> PrevOf(q) \notin pred(nxgraph, TaskOf(q))

\* C12 as amended: for every pair of consecutive tasks (prev, task) of a
\* host list, the dependency prev -> task is injected exactly when task is
\* not a boundary task (root, end) and prev is not a parent of task.
C12_SequentialInjectionNonBoundary ==
  (Dispatched /\ config.task_exec_mode = "SEQUENTIAL")
  => \A q \in ConsecutivePairs :
       <<TaskNode(PrevOf(q)), TaskNode(TaskOf(q))>> \in dependencies
         <=> (TaskOf(q) \notin boundary_tasks
              /\ PrevOf(q) \notin pred(nxgraph, TaskOf(q)))

\* one host list with a pair that got the dependency and a pair that is
\* parent and child and got none
C12_Witness ==
  /\ Dispatched
  /\ config.task_exec_mode = "SEQUENTIAL"
  /\ \E q1, q2 \in ConsecutivePairs :
       /\ q1[1] = q2[1]
       /\ <<TaskNode(PrevOf(q1)), TaskNode(TaskOf(q1))>> \in dependencies
       /\ PrevOf(q2) \in pred(nxgraph, TaskOf(q2))
       /\ TaskOf(q2) \notin boundary_tasks
       /\ <<TaskNode(PrevOf(q2)), TaskNode(TaskOf(q2))>> \notin dependencies

C14_ParallelInjectsNothing ==
  (Dispatched /\ config.task_exec_mode = "PARALLEL")
  => /\ dependencies = {}
     /\ \A t \in Tasks : sim_hosts[t] = host_of(static_schedule.lists, t)

\* a PARALLEL run in a transfer mode that is not EAGER, of a schedule that
\* gets dependencies under SEQUENTIAL in the same transfer mode
C14_Witness ==
  /\ Dispatched
  /\ config.task_exec_mode = "PARALLEL"
  /\ config.data_transfer_mode # "EAGER"
  /\ \E d \in injected_dependencies(nxgraph, boundary_tasks, "SEQUENTIAL",
                                     config.data_transfer_mode, task_states,
                                     static_schedule.lists) :
       d[2] \in Edges(nxgraph)

PositionOf(task) ==
  LET list == static_schedule.lists[host_of(static_schedule.lists, task)]
  IN CHOOSE i \in 1..Len(list) : list[i] = task

\* the transfers whose consumer is on the list of host h and outside `except`
Inbound(h, except) ==
  {c \in Edges(nxgraph) : /\ c[2] \notin except
                          /\ host_of(static_schedule.lists, c[2]) = h}

\* the transfers of S form one chain of dependencies in the order of their
\* consumers' positions, and run one at a time in that order
Chained(S) ==
  /\ \E queue \in DistinctLists(S) :
       /\ Len(queue) = Cardinality(S)
       /\ \A i \in 1..(Len(queue) - 1) :
            /\ PositionOf(queue[i][2]) <= PositionOf(queue[i + 1][2])
            /\ <<queue[i], queue[i + 1]>> \in dependencies
  /\ \A c1, c2 \in S :
       (sim_state[c1] = "running" /\ sim_state[c2] = "running") => c1 = c2
  /\ \A c1, c2 \in S :
       (PositionOf(c1[2]) < PositionOf(c2[2]) /\ sim_state[c2] # "waiting")
         => sim_state[c1] = "done"

InjectedUnder(transfer_mode) ==
  injected_dependencies(nxgraph, boundary_tasks, config.task_exec_mode,
                        transfer_mode, task_states, static_schedule.lists)

\* C17 (LAZY_PARENTS = LAZY + PARENTS): the dependencies injected under
\* LAZY_PARENTS are the union of the dependencies injected for the same
\* schedule under LAZY and under PARENTS.
C17_LazyParentsIsUnion ==
  (Dispatched /\ config.data_transfer_mode = "LAZY_PARENTS")
  => dependencies = InjectedUnder("LAZY") \cup InjectedUnder("PARENTS")

\* a LAZY_PARENTS run to which each of the two modes contributes a
\* dependency the other does not
C17_Witness ==
  /\ Dispatched
  /\ config.data_transfer_mode = "LAZY_PARENTS"
  /\ InjectedUnder("LAZY") \ InjectedUnder("PARENTS") # {}
  /\ InjectedUnder("PARENTS") \ InjectedUnder("LAZY") # {}

\* run has come to its end after simulate(): normally, or with the error of
\* _check_done
Returned ==
  /\ pc \in {"done", "failed"}
  /\ config.algo \in StaticSchedulers
       => validate(static_schedule, static_schedule.direct) = NoError

Unfinished == {n \in Nodes(nxgraph) : sim_state[n] # "done"}

\* C19 (exit contract): when the simulator has nothing left to run, a static
\* or dynamic run returns normally if and only if every task is done, and
\* otherwise raises an error that names the tasks that are not done.
C19_ExitContract ==
  Returned
  => /\ quiescent
     /\ pc = "done" <=> Unfinished = {}
     /\ pc = "done" => raised = NoError
     /\ pc = "failed"
          => raised = Error("some tasks are not finished by the end of simulation",
                            Unfinished)

\* a run that ended with an error after some tasks were done and others not
C19_Witness ==
  /\ Returned
  /\ pc = "failed"
  /\ raised.names = Unfinished
  /\ \E t \in Tasks : sim_state[TaskNode(t)] = "done"
  /\ \E t \in Tasks : sim_state[TaskNode(t)] = "waiting"

\* the result of get_schedule is one of the cases the validation is to
\* reject: neither a dict nor a (dict, float) tuple, a key that is not a host
\* or a value that is not a list, a task missing from the lists, or a task
\* the algorithm scheduled itself
Invalid(result) ==
  \/ result.type \notin {"dict", "tuple"}
  \/ result.type = "tuple" /\ ~result.tuple_ok
  \/ ~result.items_ok
  \/ \E t \in Tasks : t \notin listed(result.lists)
  \/ \E t \in Tasks : result.direct[t] # None

\* C20 (no partial schedule): when the result of get_schedule is invalid,
\* run raises before any task.schedule or add_dependency call: the
\* simulator's assignment is the one get_schedule left, there is no
\* dependency and no task has started.
C20_NoPartialSchedule ==
  (static_schedule # NoSchedule /\ Invalid(static_schedule))
  => /\ pc = "failed"
     /\ raised # NoError
     /\ sim_hosts = static_schedule.direct
     /\ dependencies = {}
     /\ \A n \in Nodes(nxgraph) : sim_state[n] = "waiting"

\* a rejected schedule that lists some of the tasks but not all, two of
\* them on one host
C20_Witness ==
  /\ pc = "failed"
  /\ static_schedule # NoSchedule
  /\ listed(static_schedule.lists) \notin {{}, Tasks}
  /\ config.task_exec_mode = "SEQUENTIAL"
  /\ \E h \in Hosts : Len(static_schedule.lists[h]) >= 2

\* ------------------------------------------------ batch scheduler properties
\* C21 (Sufferage on one host is MinMin): with exactly one execution host,
\* every batch of BatchSufferage chooses the tasks in the order in which
\* BatchMin chooses them from the same state.
C21_SufferageIsMinMinOnOneHost ==
  [][(/\ pc = "schedule"
      /\ batch.cls = "BatchSufferage"
      /\ Len(batch.speed) = 1)
     => batch'.placed = batch_schedule("BatchMin", batch).placed]_vars

\* C22 (dynamic batch places only on free hosts): a wakeup of
\* DynamicBatchScheduler.schedule calls task.schedule(host) only for hosts
\* that had no scheduled or running task when the wakeup began, at most
\* once per host, and only for tasks that were schedulable; every other
\* schedulable task stays schedulable and without a host, and every wakeup
\* considers all the schedulable tasks again.
C22_DynamicPlacesOnFreeHosts ==
  [][pc = "schedule" =>
       LET busy == {batch.host[t] : t \in {u \in BatchTasks(batch) :
                                        batch.state[u] \in {"running", "scheduled"}}}
           calls == batch'.scheduled
           waiting == {t \in BatchTasks(batch) : batch.state[t] = "schedulable"}
       IN /\ \A i \in 1..Len(calls) :
               /\ calls[i][2] \in BatchHosts(batch) \ busy
               /\ calls[i][1] \in waiting
               /\ \A j \in 1..Len(calls) : i # j => calls[i][2] # calls[j][2]
          /\ \A t \in waiting :
               IF \E i \in 1..Len(calls) : calls[i][1] = t
               THEN batch'.state[t] = "scheduled"
               ELSE batch'.state[t] = "schedulable" /\ batch'.host[t] = None
          /\ {batch'.considered[i] : i \in 1..Len(batch'.considered)} = waiting]_vars

\* a wakeup at which some host is busy, the batch chooses that host for a
\* task, and the task stays unassigned
C22_Witness ==
  /\ pc = "simulate"
  /\ batch.free_hosts # BatchHosts(batch)
  /\ \E i \in 1..Len(batch.steps) :
       /\ batch.steps[i].host \notin batch.free_hosts
       /\ batch.state[batch.steps[i].task] = "schedulable"
       /\ batch.host[batch.steps[i].task] = None
  /\ batch.scheduled # <<>>

\* C23 (batch re-evaluation): after a task is chosen for host h, the ECT
\* entry of every remaining task on h is max(updated est of h, clock) plus
\* the task's time on h.
C23_ReevaluationIsFresh ==
  pc = "simulate" =>
    \A i \in 1..Len(batch.steps) :
      LET st == batch.steps[i]
      IN \A k \in 1..Len(st.task_idx) :
           st.ECT[k][st.host] =
             get_ect(batch, st.host_est[st.host], batch.clock, st.task_idx[k], st.host)

\* the run is over and it was scenario S4
S4Done ==
  /\ pc = "done"
  /\ batch.cls \in BatchSchedulers
  /\ batch.amount = S4Amount
  /\ batch.speed \in S4Speeds
  /\ batch.edges = {}

\* C24 as stated (scenario S4): MinMin and Sufferage complete within 2 s
\* (8 quarters), and MinMin, MaxMin and Sufferage each complete strictly
\* earlier than OLB.
C24_S4StrictlyBeatsOLB ==
  S4Done =>
    /\ batch.cls \in {"BatchMin", "BatchSufferage"} => batch.clock <= 8
    /\ batch.clock < makespan("OLB", batch.speed, batch.amount, batch.edges)

\* C24 as amended (scenario S4): MinMin and Sufferage complete within 2 s,
\* and MinMin, MaxMin and Sufferage each complete no later than OLB.
C24_S4NotLaterThanOLB ==
  S4Done =>
    /\ batch.cls \in {"BatchMin", "BatchSufferage"} => batch.clock <= 8
    /\ batch.clock <= makespan("OLB", batch.speed, batch.amount, batch.edges)

\* Sufferage has run S4 to its end, in 1 s, as OLB does
C24_Witness ==
  /\ S4Done
  /\ batch.cls = "BatchSufferage"
  /\ batch.clock = 4
  /\ makespan("OLB", batch.speed, batch.amount, batch.edges) = 4

\* ------------------------------------------------------------ LDCP properties
\* C25 (LDCP rewrites preserve acyclicity): after every scheduling step
\* each per-host DAG copy, with the execution-constraint edges and the
\* temporary zero-weight edges added so far, is acyclic.
C25_DagpAcyclic ==
  \A h \in Hosts : AcyclicOn(DOMAIN ldcp.dagp[h].weight, LTasks)

\* a task went into a gap between two tasks of a timesheet: every DAG copy
\* got an edge on either side of it and lost the edge between the neighbours
C25_Witness ==
  \E h \in Hosts :
    /\ Len(ldcp.timetable[h]) >= 3
    /\ ldcp.host_to_schedule = h
    /\ ldcp.task_to_schedule = ldcp.timetable[h][2][1]
    /\ \A k \in Hosts :
         /\ <<ldcp.timetable[h][1][1], ldcp.timetable[h][2][1]>> \in DOMAIN ldcp.dagp[k].weight
         /\ <<ldcp.timetable[h][2][1], ldcp.timetable[h][3][1]>> \in DOMAIN ldcp.dagp[k].weight
         /\ <<ldcp.timetable[h][1][1], ldcp.timetable[h][3][1]>> \notin DOMAIN ldcp.dagp[k].weight

\* ------------------------------------------------------------ PEFT properties
\* the row of the optimistic cost table that belongs to a task
OCT(task) == peft.oct[index_of(peft.rt_order, task)]

\* the task's gap-aware finish time on host h
FinishOnHost(task, h) ==
  LET list == host_starts(peft_est(peft, task), peft.amount[task] \div peft.speed[h],
                          h, peft.hosts[h])
  IN SetMin({list[i][3] : i \in 1..Len(list)})

\* C26 (PEFT placement): each task is placed on the host that minimises
\* the key (finish + OCT[t,h], host.speed, host.name), finish being the
\* task's gap-aware finish time on host h.
C26_PlacementKey ==
  [][(pc = "while ready" /\ peft.ready # <<>>)
     => LET task == max_ready(peft)
            key(h) == <<FinishOnHost(task, h) + OCT(task)[h], peft.speed[h], h>>
        IN \A h \in Hosts \ {peft'.placed.host} :
             TupleLess(key(peft'.placed.host), key(h))]_vars

\* C27 (optimistic cost table): whatever the order of the list of tasks,
\* the table has a zero row for the sink and for every other task t and
\* host h holds OCT[t,h] = max over the children c of min over the hosts h'
\* of OCT[c,h'] + amount(c)/speed(h') + (the mean communication cost of the
\* edge (t,c) if h differs from h', else 0).
C27_OptimisticCostTable ==
  pc = "while ready" =>
    \A t \in PTasks : \A h \in Hosts :
      OCT(t)[h] =
        IF t = taskflow_end(peft) THEN 0
        ELSE SetMax({SetMin({OCT(c)[j] + peft.amount[c] \div peft.speed[j]
                               + (IF j # h THEN matrix_entry(peft, t, c) ELSE 0) :
                               j \in Hosts}) :
                       c \in get_children(peft, t)})

\* C28 (precedence in PEFT): for every edge u -> v the recorded start time
\* of v is no earlier than the recorded end time of u plus the
\* communication time of the edge between their hosts (zero on one host).
C28_PeftPrecedence ==
  \A e \in (IF pc = "get_schedule" THEN {} ELSE peft.edges) :
    (peft.tasks_info[e[1]].host # None /\ peft.tasks_info[e[2]].host # None)
      => peft.tasks_info[e[1]].end_time
           + (IF peft.tasks_info[e[1]].host = peft.tasks_info[e[2]].host THEN 0
              ELSE matrix_entry(peft, e[1], e[2]))
           <= peft.tasks_info[e[2]].start_time

\* ------------------------------------------------------------- DLS properties
\* the unscheduled tasks all of whose parents are scheduled
Frontier ==
  {t \in LTasks : /\ dls.task_states[t].host = None
                  /\ \A u \in preds_in(DOMAIN dls.weight, t) :
                       dls.task_states[u].host # None}

\* C29 (DLS selection): at every step the stored dynamic levels of the
\* frontier tasks on all hosts equal a fresh computation against the
\* current schedule state, the queue is the frontier, and the pair picked
\* has the largest dynamic level of all pairs of a frontier task and a host.
C29_StoredDlIsFresh ==
  [][(pc = "get_schedule" /\ dls.iterations < LdcpNumTasks)
     => /\ dls.queue_tasks = Frontier
        /\ \A t \in Frontier : \A h \in Hosts : dls.dl[h][t] = calculate_dl(dls, t, h)
        /\ dls'.task_to_schedule \in Frontier
        /\ \A t \in Frontier : \A h \in Hosts :
             calculate_dl(dls, t, h)
               <= calculate_dl(dls, dls'.task_to_schedule, dls'.host_to_schedule)]_vars

\* a task went onto a host with a task before it, and a task that was in
\* the queue before is still there: its level on the other hosts was not
\* recomputed
C29_Witness ==
  /\ pc = "get_schedule"
  /\ dls.iterations >= 2
  /\ dls.iterations < LdcpNumTasks
  /\ dls.host_to_schedule \in Hosts
  /\ dls.task_states[dls.task_to_schedule].host = dls.host_to_schedule
  /\ Len(dls.timetable[dls.host_to_schedule]) >= 2
  /\ dls.queue_tasks \ dls.new_tasks # {}

\* C30 (DLS is deterministic): the pair chosen does not depend on the order
\* in which the frontier set is iterated.
C30_ChoiceIndependentOfOrder ==
  (pc = "get_schedule" /\ dls.iterations < LdcpNumTasks)
    => \A o1, o2 \in Orders(dls.queue_tasks) : select(dls, o1) = select(dls, o2)

\* ------------------------------------------------------ HCPT properties
\* the position of a task in the list of the tasks taken for placement
TakenAt(task) == {i \in 1..Len(hcpt.taken) : hcpt.taken[i] = task}

\* the length of the longest path from a source to the task
RECURSIVE level(_, _)
level(E, task) == SetMax({0} \cup {level(E, p) + 1 : p \in preds_in(E, task)})

RECURSIVE Power(_, _)
Power(b, n) == IF n = 0 THEN 1 ELSE b * Power(b, n - 1)

\* the entry at position i of the stack waits for parents that are neither
\* in the queue nor above it on the stack
Unexpanded(i) ==
  \E p \in preds_in(DOMAIN hcpt.weight, hcpt.stack[i]) :
    /\ \A k \in 1..Len(hcpt.queue) : hcpt.queue[k] # p
    /\ \A k \in (i + 1)..Len(hcpt.stack) : hcpt.stack[k] # p

\* a bound of the work the stack still holds: an entry counts for more than
\* all the parents it may push, and twice while it has parents to push
StackWork ==
  LET entry == [i \in 1..Len(hcpt.stack) |->
                  Power(2 * LdcpNumTasks, level(DOMAIN hcpt.weight, hcpt.stack[i]))
                    * (IF Unexpanded(i) THEN 2 ELSE 1)]
  IN SetSum(entry, 1..Len(hcpt.stack))

\* a natural number that every iteration of either loop makes smaller
Variant ==
  2 * StackWork + Len(hcpt.queue)
    + (IF pc = "stack" THEN 2 ELSE IF pc = "queue" THEN 1 ELSE 0)

\* the tasks taken so far are distinct and each comes after its parents;
\* when get_schedule has returned they are all tasks of the graph
EmissionOrder ==
  /\ \A t \in LTasks : Cardinality(TakenAt(t)) <= 1
  /\ \A i \in 1..Len(hcpt.taken) :
       \A p \in preds_in(DOMAIN hcpt.weight, hcpt.taken[i]) :
         \E j \in 1..(i - 1) : hcpt.taken[j] = p
  /\ pc = "done" => \A t \in LTasks : Cardinality(TakenAt(t)) = 1

\* C31: the traversal of HCPT.get_schedule ends for every DAG (every
\* iteration of either loop makes the natural number Variant smaller and
\* the return leaves it 0), and
\* the tasks the second loop takes for placement, repeats dropped, are all
\* tasks of the graph, each once and each after all of its parents
C31_EmissionOrder ==
  [][pc # "get_schedule" => Variant' < Variant /\ EmissionOrder /\ EmissionOrder']_vars

\* the second loop has just dropped a task it met again, in a graph with a
\* task off the critical path
C31_Witness ==
  /\ pc = "queue"
  /\ hcpt.taken # <<>>
  /\ hcpt.task # hcpt.taken[Len(hcpt.taken)]
  /\ \E t \in LTasks : hcpt.aest[t] # hcpt.alst[t]

\* ------------------------------------------------------- OLB properties
\* the execution hosts without a scheduled or running task
OlbFree ==
  {h \in BatchHosts(batch) :
     ~ \E t \in BatchTasks(batch) :
         batch.state[t] \in {"running", "scheduled"} /\ batch.host[t] = h}

\* the tasks a call of schedule finds schedulable, and those it dispatches
OlbWaiting == {t \in BatchTasks(batch) : batch.state[t] = "schedulable"}

OlbDispatched == {t \in OlbWaiting : batch'.state[t] = "scheduled"}

\* task t became schedulable before task u, or with it and precedes it in
\* simulation.tasks
OlbBefore(t, u) ==
  LET at(x) == {i \in 1..Len(batch.queue) : batch.queue[i] = x}
  IN IF at(t) # {} /\ at(u) # {} THEN \E i \in at(t), j \in at(u) : i < j
     ELSE IF at(t) # {} THEN TRUE
     ELSE IF at(u) # {} THEN FALSE
     ELSE t < u

\* C32: a call of OLB.schedule dispatches the waiting tasks first come first
\* served, each to the fastest of the execution hosts that are still free,
\* never to a host with a scheduled or running task, never a task a second
\* time, and leaves the head of the queue waiting when no host is free
C32_OlbDispatch ==
  [][(batch.cls = "OLB" /\ pc = "schedule") =>
       /\ \A t \in BatchTasks(batch) :
            batch'.state[t] # batch.state[t] => t \in OlbDispatched
       /\ \A t \in OlbDispatched :
            /\ batch.host[t] = None
            /\ batch'.host[t] \in OlbFree
            /\ \A u \in OlbDispatched \ {t} : batch'.host[u] # batch'.host[t]
            /\ \A u \in OlbWaiting \ OlbDispatched : OlbBefore(t, u)
            /\ \A u \in OlbDispatched \ {t} :
                 OlbBefore(t, u) =>
                   /\ batch.speed[batch'.host[t]] >= batch.speed[batch'.host[u]]
            /\ \A h \in OlbFree \ {batch'.host[u] : u \in OlbDispatched} :
                 batch.speed[h] <= batch.speed[batch'.host[t]]
       /\ OlbWaiting # OlbDispatched =>
            /\ OlbFree = {batch'.host[u] : u \in OlbDispatched}
            /\ batch'.queue # <<>>
            /\ \A u \in OlbWaiting \ OlbDispatched : OlbBefore(batch'.queue[1], u)
                                                      \/ u = batch'.queue[1]
       /\ {batch'.queue[i] : i \in 1..Len(batch'.queue)} = OlbWaiting \ OlbDispatched
    ]_vars

\* OLB has dispatched a task that waited in the queue during an earlier
\* call, and the next task of the queue still waits for a free host
C32_Witness ==
  /\ batch # <<>>
  /\ batch.cls = "OLB"
  /\ pc = "simulate"
  /\ batch.queue # <<>>
  /\ \E t \in BatchTasks(batch) : batch.state[t] = "done"
  /\ \E t \in BatchTasks(batch) : batch.state[t] = "scheduled"

\* C33: DynamicScheduler.run of an OLB scheduler ends, for every acyclic
\* workflow and every platform with an execution host, with every task done
\* and the completion check passed
C33_OlbRunCompletes ==
  <>(/\ pc = "returned"
     /\ raised = NoError
     /\ \A t \in BatchTasks(batch) : batch.state[t] = "done")

\* run has returned after a call of schedule that left a task waiting for a
\* free host: of tasks that depend on nothing, one has run after another on
\* the same host
C33_Witness ==
  /\ batch # <<>>
  /\ batch.cls = "OLB"
  /\ pc = "returned"
  /\ batch.edges = {}
  /\ \E t, u \in BatchTasks(batch) :
       /\ batch.host[t] = batch.host[u]
       /\ batch.finish[t] < batch.finish[u]
       /\ <<t, u>> \notin batch.edges

\* ------------------------------------------- batch scheduler properties
\* the tasks dispatched to a host and not finished
BatchUnfinishedOn(b, h) ==
  {t \in BatchTasks(b) : b.host[t] = h /\ b.state[t] \in {"scheduled", "running"}}

\* C37: after every call of schedule of a batch scheduler each execution
\* host has at most one dispatched and unfinished task, a host is free only
\* if no task is pending in its queue, and the target host of a task, once
\* chosen, never changes
C37_BatchHostDiscipline ==
  [][batch.cls \in BatchSchedulers =>
       /\ \A h \in BatchHosts(batch) :
            /\ Cardinality(BatchUnfinishedOn(batch', h)) <= 1
            /\ batch'.is_free[h] => batch'.tasks[h] = <<>>
       /\ \A t \in BatchTasks(batch) :
            batch.target_host[t] # None => batch'.target_host[t] = batch.target_host[t]
    ]_vars

\* schedule has run after a task finished, a host runs a task and has
\* another one pending
C37_Witness ==
  /\ batch # <<>>
  /\ batch.cls \in BatchSchedulers
  /\ pc = "simulate"
  /\ \E t \in BatchTasks(batch) : batch.state[t] = "done" /\ batch.host[t] # master_host(batch)
  /\ \E h \in BatchHosts(batch) :
       /\ batch.tasks[h] # <<>>
       /\ BatchUnfinishedOn(batch, h) # {}


\* the tasks of the workflow of an LDCP run that have no child
LdcpSinks == {t \in LTasks : succs_in(DOMAIN ldcp.weight, t) = {}}

\* an iteration of get_schedule is about to select a task
LdcpSelecting == pc = "get_schedule" /\ ldcp.iterations < LdcpNumTasks

\* the unscheduled children of the last identified task in the DAG copy of
\* the last used host, from which get_uras_with_term takes the key node
LdcpKeyNodes ==
  succs_in(DOMAIN ldcp.dagp[ldcp.last_used_host_dagp].weight,
           ldcp.last_identified_task) \cap ldcp.unscheduled_tasks

Injecting ==
  pc = "constructed" /\ pc' = "simulate" /\ config.algo \in StaticSchedulers

\* how often the run of this step calls add_dependency with the pair d
CallsWith(d) ==
  add_dependency_calls(nxgraph, boundary_tasks, config.task_exec_mode,
                       config.data_transfer_mode, task_states,
                       static_schedule'.lists, d)

\* C35 (no duplicate constraint): for every schedule and every combination
\* of task-execution and data-transfer mode, run calls add_dependency at most
\* once with a (parent, child) pair and never with parent equal to child.
C35_NoDuplicateConstraint ==
  [][Injecting => \A d \in Nodes(nxgraph) \X Nodes(nxgraph) :
                    /\ CallsWith(d) <= 1
                    /\ (CallsWith(d) > 0 => d[1] # d[2])]_vars

\* the workflow's edges and the edges between consecutive tasks of a host
ConsistencyEdges ==
  Edges(nxgraph) \cup {<<PrevOf(q), TaskOf(q)>> : q \in ConsecutivePairs}

\* what the simulator orders: producer, transfer, consumer, and the pairs
\* add_dependency was called with
DependencyGraph ==
  {<<m, n>> : <<n, m>> \in {q \in Nodes(nxgraph) \X Nodes(nxgraph) :
                              q[2] \in before(nxgraph, dependencies, q[1])}}

Repeated(lists) ==
  \E h1, h2 \in Hosts : \E i \in 1..Len(lists[h1]), j \in 1..Len(lists[h2]) :
    <<h1, i>> # <<h2, j>> /\ lists[h1][i] = lists[h2][j]

\* C38 (a repeated task is rejected): run accepts only schedules that list
\* every task exactly once; a schedule that lists a task on two hosts or
\* twice on one host is rejected, and no task has been given a host then.
C38_RepeatedTaskRejected ==
  (static_schedule # NoSchedule /\ Repeated(static_schedule.lists))
    => (/\ pc = "failed"
        /\ raised # NoError
        /\ \A t \in Tasks : sim_hosts[t] = None)


\* ---------------------------------------------- testbed manager properties
\* the jobs the agents were sent for a task / hold unfinished on a host
JobsOf(m, task) == {j \in DOMAIN m.jobs : m.jobs[j].task = task}

UnfinishedOn(m, host) ==
  {j \in DOMAIN m.jobs : m.jobs[j].host = host /\ m.jobs[j].state \notin FinalStates}

\* C39 (testbed manager under concurrency): in every interleaving of the
\* main thread's schedule() with the schedule() calls of the agents'
\* callbacks, a task is submitted to an agent at most once, and only when
\* every task it depends on is DONE, and no host is allocated to two
\* unfinished tasks at a time.
C39_ManagerSubmitsOnce ==
  [][/\ \A task \in Tasks : Cardinality(JobsOf(manager', task)) <= 1
     /\ \A host \in Hosts : Cardinality(UnfinishedOn(manager', host)) <= 1
     /\ Len(manager'.jobs) > Len(manager.jobs) =>
          \A d \in manager.deps[manager'.jobs[Len(manager'.jobs)].task] :
            manager.state[d] = "DONE"]_vars

\* no job is unfinished and neither thread is inside a handler
ManagerQuiet ==
  /\ manager.jobs # <<>>
  /\ \A j \in DOMAIN manager.jobs : manager.jobs[j].state \in FinalStates
  /\ manager.threads["ioloop"].pc = "idle"
  /\ manager.threads["main"].pc \in {"wait", "returned"}

\* the tasks a task depends on, directly or through other tasks
RECURSIVE UpstreamOf(_, _)
UpstreamOf(m, S) ==
  LET more == UNION {m.deps[t] : t \in S} \ S
  IN IF more = {} THEN S ELSE UpstreamOf(m, S \cup more)

\* C40 (testbed manager termination): once every submitted task is DONE,
\* FAILED or CANCELED, every task that depends, directly or through other
\* tasks, on a failed or cancelled task is marked FAILED or CANCELED and
\* counted: completed_tasks has reached the number of tasks, and run returns.
C40_ManagerTerminates ==
  ManagerQuiet =>
    /\ \A t \in Tasks :
         (\E u \in UpstreamOf(manager, manager.deps[t]) :
            manager.state[u] \in {"FAILED", "CANCELED"})
           => manager.state[t] \in {"FAILED", "CANCELED"}
    /\ manager.completed_tasks >= NumTasks

====
